---- MODULE Spec2Model ----
(***************************************************************************)
(* Memory subsystem of chatbot-llm: MemoryItem, ConversationMemory,        *)
(* MemoryManager (src/services/memory_service.py) and the chat turn of     *)
(* LLMService (src/services/llm_service.py).                               *)
(*                                                                         *)
(* Text is a sequence of one-character strings, so that str.lower(),       *)
(* str.split() and the word sets built from them are computed, not         *)
(* assumed.  Time is an integer clock `now` (one unit = one day of the     *)
(* retention window) that datetime.now() reads; time.time(), which only    *)
(* feeds the long-term ids, is read at a finer grain (time_time).          *)
(* MemoryManager.user_memories is a dict: user_memories is its mapping     *)
(* and registry the order in which its keys were inserted.                 *)
(***************************************************************************)
EXTENDS Integers, Sequences, FiniteSets, TLC

VARIABLES user_memories, registry, now, result, requests, st_log, ctx_log, constructed, next_oid

vars == <<user_memories, registry, now, result, requests, st_log, ctx_log, constructed, next_oid>>

(***************************************************************************)
(* Settings (src/config/settings.py, read from the environment; defaults   *)
(* 10, 50 and 30), run here at small values, and the bounds of the model.  *)
(***************************************************************************)
short_term_memory_size == 2

max_conversation_history == 3

memory_retention_days == 1

MaxTime == 2

MaxAppends == short_term_memory_size + 1

MaxLongTerm == 2

MaxAccess == 3

MaxRequests == 2

MaxTextLen == 3

(***************************************************************************)
(* Text.                                                                   *)
(***************************************************************************)
Space == " "

\* a sequence written as a function over 1..n, in tuple form (the same value)
AsSeq(f) == SubSeq(f, 1, Len(f))

\* a conversion that leaves the case of every letter as it is
keep_case(s) == s

lower(s) ==
  AsSeq([i \in 1..Len(s) |-> IF s[i] = "A" THEN "a" ELSE IF s[i] = "B" THEN "b" ELSE s[i]])

\* str.split(): the maximal runs of non-whitespace characters, as a set
\* (the callers only build set(...) from the list).
split(s) ==
  LET starts == { i \in 1..Len(s) : s[i] # Space /\ (i = 1 \/ s[i - 1] = Space) }
      end(i) == CHOOSE j \in i..Len(s) :
                  /\ \A k \in i..j : s[k] # Space
                  /\ (j = Len(s) \/ s[j + 1] = Space)
  IN  { SubSeq(s, i, end(i)) : i \in starts }

\* a test that only the text without any character passes
empty_only(s) == s = <<>>

\* str.strip() is empty: the text has no character other than whitespace
blank(s) == \A i \in 1..Len(s) : s[i] = Space

\* `a in b` on strings: a is a contiguous run of characters of b
contains(b, a) ==
  \E i \in 0..(Len(b) - Len(a)) : \A k \in 1..Len(a) : b[i + k] = a[k]

(***************************************************************************)
(* Relevance score: a fraction <<numerator, denominator>>.  Python divides *)
(* two small integers, and correctly rounded division maps equal fractions *)
(* to equal floats and keeps their order, so fractions are compared by     *)
(* cross multiplication.                                                   *)
(***************************************************************************)
\* the share of the words of the context that the memory has
share_of_context(context, memory_content) ==
  LET context_words == split(lower(context))
      memory_words == split(lower(memory_content))
  IN  IF context_words = {} \/ memory_words = {}
        THEN <<0, 1>>
        ELSE <<Cardinality(context_words \cap memory_words), Cardinality(context_words)>>

calculate_relevance(context, memory_content) ==
  LET context_words == split(lower(context))
      memory_words == split(lower(memory_content))
      intersection == context_words \cap memory_words
      union == context_words \cup memory_words
  IN  IF context_words = {} \/ memory_words = {}
        THEN <<0, 1>>
        ELSE <<Cardinality(intersection), Cardinality(union)>>

\* The texts of the model.
s_a == <<"a">>

s_ab == <<"a", " ", "b">>

s_Ab == <<"A", " ", "b">>

s_ac == <<"a", " ", "c">>

s_abcd == <<"a", " ", "b", " ", "c", " ", "d">>

s_c == <<"c">>

s_empty == <<>>

s_blank == <<" ">>

\* a text that holds five of the keywords of _evaluate_message_importance
s_cdefg == <<"c", "d", "e", "f", "g">>

\* "사용자: {userMessage}\nAI: {assistantMessage}": a label, the user
\* message, a line break, a label, the assistant message.  The line break is
\* written as a space: both are whitespace to str.split.
combined_content(userMessage, assistantMessage) ==
  <<"p", " ">> \o userMessage \o <<" ", "q", " ">> \o assistantMessage

\* "사용자 정보: ", the two words put before an extracted message
info_prefix == <<"x", " ", "y", " ">>

Texts ==
  LET given == {s_a, s_ab, s_Ab, s_abcd, s_ac, s_c, s_empty, s_blank, info_prefix \o s_Ab,
                s_cdefg, combined_content(s_a, s_c)}
  IN  given \cup {lower(t) : t \in given}

\* _calculate_relevance of every pair of texts, computed once and looked up
relevance_table == [c \in Texts |-> [m \in Texts |-> calculate_relevance(c, m)]]

relevance(context, memory_content) == relevance_table[context][memory_content]

\* score > 0.3 and score > 0.1 (the float literal 0.3 is the float of 3/10)
above_03(score) == 10 * score[1] > 3 * score[2]

above_01(score) == 10 * score[1] > score[2]

score_gt(a, b) == a[1] * b[2] > b[1] * a[2]

score_eq(a, b) == a[1] * b[2] = b[1] * a[2]

(***************************************************************************)
(* MemoryItem and Message.                                                 *)
(***************************************************************************)
Message(role, content) == [role |-> role, content |-> content]

\* oid is the identity of the constructed object (its rank among the items
\* constructed for the same container of the same store); it is bookkeeping
\* and never read by the code
MemoryItem(content, importance, memory_type, role, t, oid) ==
  [content |-> content, importance |-> importance, memory_type |-> memory_type,
   role |-> role, created_at |-> t, last_accessed |-> t, access_count |-> 0, oid |-> oid]

DefaultTypes == {"conversation", "user_info", "preference"}

(***************************************************************************)
(* ConversationMemory.  long_term_memory is a dict: a sequence of          *)
(* [id, item] in insertion order with distinct ids.                        *)
(***************************************************************************)
ConversationMemory(user_id) ==
  [user_id |-> user_id,
   short_term_memory |-> <<>>,
   long_term_memory |-> <<>>,
   user_preferences |-> <<>>,
   conversation_contexts |-> <<>>]

\* a bounded queue that, when over its length, gives up its least important
\* item (the oldest of them) instead of its oldest one
deque_append_by_importance(q, x) ==
  LET q2 == Append(q, x)
      low == CHOOSE i \in 1..Len(q2) :
               /\ \A j \in 1..Len(q2) : q2[i].importance <= q2[j].importance
               /\ \A j \in 1..(i - 1) : q2[j].importance > q2[i].importance
  IN  IF Len(q2) > short_term_memory_size
        THEN SubSeq(q2, 1, low - 1) \o SubSeq(q2, low + 1, Len(q2))
        ELSE q2

\* deque(maxlen).append: the item goes to the right end and, when the deque
\* is over its length, items are discarded from the left end
deque_append(q, x) ==
  LET q2 == Append(q, x)
  IN  IF Len(q2) > short_term_memory_size
        THEN SubSeq(q2, Len(q2) - short_term_memory_size + 1, Len(q2))
        ELSE q2

add_short_term_memory(mem, message, importance, t, oid) ==
  [mem EXCEPT !.short_term_memory =
     deque_append(@, MemoryItem(message.content, importance, "conversation", message.role, t, oid))]

\* time.time() as read by a call at time t. The clock is finer than the unit
\* of `now` but it is not a counter: two successive calls can read the same
\* value (a coarse or stepped clock), and otherwise the later call reads a
\* later value. <<t, k>> is the k-th distinct value read at t among the
\* readings the entries of the map carry; the last of them can be read again.
latest_reading(mem, t) ==
  LET ks == {mem.long_term_memory[i].id[4][2] :
               i \in {j \in 1..Len(mem.long_term_memory) : mem.long_term_memory[j].id[4][1] = t}}
  IN  IF ks = {} THEN 0 ELSE CHOOSE k \in ks : \A q \in ks : q <= k

time_time(mem, t) ==
  LET k == latest_reading(mem, t)
  IN  {<<t, k + 1>>} \cup (IF k > 0 THEN {<<t, k>>} ELSE {})

\* the digest of "content:memory_type:user_id:time.time()", kept as the tuple
\* it is computed from
generate_memory_id(mem, content, memory_type, reading) ==
  <<content, memory_type, mem.user_id, reading>>

\* d[key] = value on a dict: replaces the value of a present key in place,
\* appends a new key at the end
dict_set(d, key, value) ==
  IF \E i \in 1..Len(d) : d[i].id = key
    THEN AsSeq([i \in 1..Len(d) |-> IF d[i].id = key THEN [id |-> key, item |-> value] ELSE d[i]])
    ELSE Append(d, [id |-> key, item |-> value])

add_long_term_memory(mem, content, importance, memory_type, t, oid, reading) ==
  LET memory_id == generate_memory_id(mem, content, memory_type, reading)
  IN  [mem |-> [mem EXCEPT !.long_term_memory =
                  dict_set(@, memory_id, MemoryItem(content, importance, memory_type, "none", t, oid))],
       ret |-> memory_id]

(***************************************************************************)
(* Optional values: None is <<>>, a given value v is <<v>>.                *)
(***************************************************************************)
None == <<>>

Some(v) == <<v>>

(***************************************************************************)
(* list.sort(key = score, reverse = True): stable, descending.  Each       *)
(* element is a record with a field score; an element is placed after      *)
(* every element already placed whose score is not smaller.                *)
(***************************************************************************)
\* an insertion that puts a new element before the elements of equal score
RECURSIVE insert_desc_before_equal(_, _)
insert_desc_before_equal(sorted, e) ==
  IF sorted = <<>> THEN <<e>>
  ELSE IF ~score_gt(Head(sorted).score, e.score)
         THEN <<e>> \o sorted
         ELSE <<Head(sorted)>> \o insert_desc_before_equal(Tail(sorted), e)

\* list.sort(key = score, reverse = True): stable, equal scores keep their order
RECURSIVE insert_desc(_, _)
insert_desc(sorted, e) ==
  IF sorted = <<>> THEN <<e>>
  ELSE IF score_gt(e.score, Head(sorted).score)
         THEN <<e>> \o sorted
         ELSE <<Head(sorted)>> \o insert_desc(Tail(sorted), e)

RECURSIVE sort_desc(_)
sort_desc(l) ==
  IF l = <<>> THEN <<>>
  ELSE insert_desc(sort_desc(SubSeq(l, 1, Len(l) - 1)), l[Len(l)])

\* l[:limit] for limit >= 0
prefix(l, limit) == SubSeq(l, 1, IF Len(l) < limit THEN Len(l) ELSE limit)

\* l[-n:] for n >= 1
suffix(l, n) == IF Len(l) > n THEN SubSeq(l, Len(l) - n + 1, Len(l)) ELSE l

(***************************************************************************)
(* retrieve_relevant_memories.  An item is kept when its type is requested *)
(* and its score is above 0.3; every kept item is touched; the kept items  *)
(* are sorted and cut to limit.  The result is a sequence of references    *)
(* [kind, idx] into short_term_memory / long_term_memory (the method       *)
(* returns the stored objects themselves).                                 *)
(***************************************************************************)
\* the filter with the threshold of get_relevant_memories (0.1)
is_relevant_above_01(memory, relevance_score, memory_types) ==
  /\ memory.memory_type \in memory_types
  /\ above_01(relevance_score)

is_relevant(memory, relevance_score, memory_types) ==
  /\ memory.memory_type \in memory_types
  /\ above_03(relevance_score)

\* an access that also raises the importance of the item
touch_and_promote(memory, t) ==
  [memory EXCEPT !.access_count = @ + 1, !.last_accessed = t, !.importance = @ + 1]

touch(memory, t) ==
  [memory EXCEPT !.access_count = @ + 1, !.last_accessed = t]

\* bookkeeping on the returned items only
accessed_if_returned(ref, returned) ==
  \E i \in 1..Len(returned) : returned[i].kind = ref.kind /\ returned[i].idx = ref.idx

\* the items whose bookkeeping is updated: the update is in the scan loops,
\* on every item appended to relevant_memories, before the sort and the cut
accessed(ref, returned) == ref.kept

\* one pass of the scan loops: the reference, score and verdict of each item
scan(items, kind, current_context, memory_types) ==
  AsSeq([i \in 1..Len(items) |->
     LET relevance_score == relevance(current_context, items[i].content)
     IN  [kind |-> kind, idx |-> i, score |-> relevance_score,
          kept |-> is_relevant(items[i], relevance_score, memory_types)]])

retrieve_relevant_memories(mem, current_context, limit, memory_types_opt, t) ==
  LET memory_types == IF memory_types_opt = None THEN DefaultTypes ELSE memory_types_opt[1]
      stm == mem.short_term_memory
      ltm == mem.long_term_memory
      kept(r) == r.kept
  IN  LET st_refs == scan(stm, "short", current_context, memory_types)
          lt_refs == scan(AsSeq([i \in 1..Len(ltm) |-> ltm[i].item]), "long",
                          current_context, memory_types)
      IN  LET relevant_memories == SelectSeq(st_refs, kept) \o SelectSeq(lt_refs, kept)
              sorted == prefix(sort_desc(relevant_memories), limit)
          IN  [mem |-> [mem EXCEPT
                  !.short_term_memory =
                     AsSeq([i \in 1..Len(stm) |->
                              IF accessed(st_refs[i], sorted) THEN touch(stm[i], t)
                                                              ELSE stm[i]]),
                  !.long_term_memory =
                     AsSeq([i \in 1..Len(ltm) |->
                              IF accessed(lt_refs[i], sorted)
                                THEN [ltm[i] EXCEPT !.item = touch(@, t)]
                                ELSE ltm[i]])],
               ret |-> AsSeq([i \in 1..Len(sorted) |->
                                [kind |-> sorted[i].kind, idx |-> sorted[i].idx]])]

(***************************************************************************)
(* Conversation contexts: a dict conversation id -> list of messages.      *)
(***************************************************************************)
get_conversation_context(mem, conversation_id) ==
  LET d == mem.conversation_contexts
  IN  IF \E i \in 1..Len(d) : d[i].id = conversation_id
        THEN (CHOOSE e \in {d[i] : i \in 1..Len(d)} : e.id = conversation_id).item
        ELSE <<>>

\* an update that puts the given messages after the stored ones
extend_conversation_context(mem, conversation_id, messages) ==
  LET max_messages == max_conversation_history
      all == get_conversation_context(mem, conversation_id) \o messages
      kept == IF Len(all) > max_messages THEN suffix(all, max_messages) ELSE all
  IN  [mem EXCEPT !.conversation_contexts = dict_set(@, conversation_id, kept)]

\* an update that stores the messages as they are given
update_conversation_context_uncut(mem, conversation_id, messages) ==
  [mem EXCEPT !.conversation_contexts = dict_set(@, conversation_id, messages)]

update_conversation_context(mem, conversation_id, messages) ==
  LET max_messages == max_conversation_history
      kept == IF Len(messages) > max_messages THEN suffix(messages, max_messages) ELSE messages
  IN  [mem EXCEPT !.conversation_contexts = dict_set(@, conversation_id, kept)]

add_user_preference(mem, key, value) ==
  [mem EXCEPT !.user_preferences = dict_set(@, key, value)]

(***************************************************************************)
(* cleanup_old_memories.                                                   *)
(***************************************************************************)
\* a cleanup by age alone
cleanup_by_age(mem, t) ==
  LET cutoff_date == t - memory_retention_days
      keep(e) == ~(e.item.created_at < cutoff_date)
  IN  [mem EXCEPT !.long_term_memory = SelectSeq(@, keep)]

\* a cleanup that applies the same test to the items of the queue
cleanup_queue_too(mem, t) ==
  LET cutoff_date == t - memory_retention_days
      keep(e) == ~(e.item.created_at < cutoff_date /\ e.item.importance < 7)
      keep_item(x) == ~(x.created_at < cutoff_date /\ x.importance < 7)
  IN  [mem EXCEPT !.long_term_memory = SelectSeq(@, keep),
                  !.short_term_memory = SelectSeq(@, keep_item)]

cleanup_old_memories(mem, t) ==
  LET cutoff_date == t - memory_retention_days
      keep(e) == ~(e.item.created_at < cutoff_date /\ e.item.importance < 7)
  IN  [mem EXCEPT !.long_term_memory = SelectSeq(@, keep)]

(***************************************************************************)
(* get_relevant_memories.  scored_memories is a list of tuples             *)
(* (combined_score, content) and list.sort(reverse = True) compares the    *)
(* tuples: by combined score, then by content as a string (code points).   *)
(* combined = (importance / 10) * 0.7 + relevance * 0.3, kept as the       *)
(* fraction (7 * importance * den + 30 * num) / (100 * den).               *)
(***************************************************************************)
char_code(c) ==
  CASE c = " " -> 32 [] c = "A" -> 65 [] c = "B" -> 66
    [] c = "a" -> 97 [] c = "b" -> 98 [] c = "c" -> 99 [] c = "d" -> 100
    [] OTHER -> 120

RECURSIVE str_gt(_, _)
str_gt(a, b) ==
  IF a = <<>> THEN FALSE
  ELSE IF b = <<>> THEN TRUE
  ELSE IF char_code(Head(a)) # char_code(Head(b)) THEN char_code(Head(a)) > char_code(Head(b))
  ELSE str_gt(Tail(a), Tail(b))

\* a score that leaves the relevance out
importance_as_score(importance, relevance_score) == <<importance, 1>>

combined_score(importance, relevance_score) ==
  <<7 * importance * relevance_score[2] + 30 * relevance_score[1], 100 * relevance_score[2]>>

tuple_gt(x, y) ==
  \/ score_gt(x.score, y.score)
  \/ score_eq(x.score, y.score) /\ str_gt(x.content, y.content)

RECURSIVE insert_tuple_desc(_, _)
insert_tuple_desc(sorted, e) ==
  IF sorted = <<>> THEN <<e>>
  ELSE IF tuple_gt(e, Head(sorted))
         THEN <<e>> \o sorted
         ELSE <<Head(sorted)>> \o insert_tuple_desc(Tail(sorted), e)

RECURSIVE sort_tuples_desc(_)
sort_tuples_desc(l) ==
  IF l = <<>> THEN <<>>
  ELSE insert_tuple_desc(sort_tuples_desc(SubSeq(l, 1, Len(l) - 1)), l[Len(l)])

\* the back-fill loop over short_term_memory: appends matching contents
\* until the list has limit entries
RECURSIVE backfill(_, _, _, _)
backfill(relevant, stm, query_lower, limit) ==
  IF stm = <<>> \/ Len(relevant) >= limit THEN relevant
  ELSE IF contains(lower(Head(stm).content), query_lower)
         THEN backfill(Append(relevant, Head(stm).content), Tail(stm), query_lower, limit)
         ELSE backfill(relevant, Tail(stm), query_lower, limit)

relevant_contents(mem, query, limit) ==
  LET ltm == mem.long_term_memory
      by_importance == AsSeq([i \in 1..Len(ltm) |->
                          [score |-> <<ltm[i].item.importance, 1>>, content |-> ltm[i].item.content]])
      sorted_memories == prefix(sort_desc(by_importance), limit)
      query_lower == lower(query)
      scored == AsSeq([i \in 1..Len(ltm) |->
                   LET relevance_score ==
                         relevance(query_lower, lower(ltm[i].item.content))
                   IN  [rel |-> relevance_score,
                        score |-> combined_score(ltm[i].item.importance, relevance_score),
                        content |-> ltm[i].item.content]])
      over(e) == above_01(e.rel)
      scored_memories == prefix(sort_tuples_desc(SelectSeq(scored, over)), limit)
      relevant == AsSeq([i \in 1..Len(scored_memories) |-> scored_memories[i].content])
  IN  IF query = <<>> \/ blank(query)
        THEN AsSeq([i \in 1..Len(sorted_memories) |-> sorted_memories[i].content])
        ELSE IF Len(relevant) < limit
               THEN backfill(relevant, mem.short_term_memory, query_lower, limit)
               ELSE relevant

\* a lookup that also counts an access on the items matching the query
get_relevant_memories_counting(mem, query, limit) ==
  [mem |-> retrieve_relevant_memories(mem, query, limit, None, 0).mem,
   ret |-> relevant_contents(mem, query, limit)]

\* the store is only read
get_relevant_memories(mem, query, limit) ==
  [mem |-> mem, ret |-> relevant_contents(mem, query, limit)]

(***************************************************************************)
(* Inputs.                                                                 *)
(***************************************************************************)
\* add_short_term_memory(message, importance)
ShortTermInputs ==
  { [message |-> Message("user", s_ab), importance |-> 7],
    [message |-> Message("assistant", s_abcd), importance |-> 6] }

\* add_long_term_memory(content, importance, memory_type)
LongTermInputs ==
  { [content |-> s_Ab, importance |-> 6, memory_type |-> "conversation"],
    [content |-> s_ac, importance |-> 7, memory_type |-> "important"] }

\* get_relevant_memories(query, limit)
QueryInputs ==
  { [query |-> s_empty, limit |-> 2],
    [query |-> s_a, limit |-> 1],
    [query |-> s_a, limit |-> 2],
    [query |-> s_Ab, limit |-> 2],
    [query |-> s_c, limit |-> 2],
    [query |-> s_blank, limit |-> 1] }

\* retrieve_relevant_memories(current_context, limit, memory_types)
RetrieveInputs ==
  { [context |-> s_a, limit |-> 1, memory_types |-> None],
    [context |-> s_a, limit |-> 2, memory_types |-> Some({"conversation", "important"})],
    [context |-> s_Ab, limit |-> 2, memory_types |-> None],
    [context |-> s_a, limit |-> 2, memory_types |-> Some({"important"})],
    [context |-> s_c, limit |-> 2, memory_types |-> None] }

Users == {"u1", "u2"}

(***************************************************************************)
(* The store of user u1 under the operations of ConversationMemory.        *)
(* result records the last operation, its arguments and what it returned;  *)
(* st_log[u] lists the items handed to u's short-term queue, as they were  *)
(* constructed; next_oid counts the items constructed for each container.  *)
(***************************************************************************)
the_user == "u1"

InitStore ==
  /\ user_memories = [u \in {the_user} |-> ConversationMemory(u)]
  /\ registry = <<the_user>>
  /\ now = 0
  /\ result = [op |-> "init"]
  /\ requests = <<>>
  /\ st_log = [u \in {the_user} |-> <<>>]
  /\ ctx_log = <<>>
  /\ constructed = [u \in {the_user} |-> 1]
  /\ next_oid = [u \in {the_user} |-> [short |-> 1, long |-> 1]]

AddShortTermMemory ==
  \E in \in ShortTermInputs :
    /\ Len(st_log[the_user]) < MaxAppends
    /\ user_memories' = [user_memories EXCEPT ![the_user] =
          add_short_term_memory(@, in.message, in.importance, now, next_oid[the_user].short)]
    /\ st_log' = [st_log EXCEPT ![the_user] =
          Append(@, MemoryItem(in.message.content, in.importance, "conversation",
                               in.message.role, now, next_oid[the_user].short))]
    /\ next_oid' = [next_oid EXCEPT ![the_user].short = @ + 1]
    /\ result' = [op |-> "add_short_term_memory"]
    /\ UNCHANGED <<registry, now, requests, ctx_log, constructed>>

AddLongTermMemory ==
  \E in \in LongTermInputs :
    \E reading \in time_time(user_memories[the_user], now) :
    \E r \in {add_long_term_memory(user_memories[the_user], in.content, in.importance,
                                   in.memory_type, now, next_oid[the_user].long, reading)} :
        /\ next_oid[the_user].long <= MaxLongTerm
        /\ user_memories' = [user_memories EXCEPT ![the_user] = r.mem]
        /\ next_oid' = [next_oid EXCEPT ![the_user].long = @ + 1]
        /\ result' = [op |-> "add_long_term_memory", ret |-> r.ret]
        /\ UNCHANGED <<registry, now, requests, st_log, ctx_log, constructed>>

\* the number of accesses the items of a store have counted
RECURSIVE sum_access(_)
sum_access(items) ==
  IF items = <<>> THEN 0 ELSE Head(items).access_count + sum_access(Tail(items))

total_access(mem) ==
  sum_access(mem.short_term_memory)
    + sum_access(AsSeq([i \in 1..Len(mem.long_term_memory) |-> mem.long_term_memory[i].item]))

RetrieveRelevantMemories ==
  \E in \in RetrieveInputs :
    \E r \in {retrieve_relevant_memories(user_memories[the_user], in.context, in.limit,
                                         in.memory_types, now)} :
        /\ total_access(r.mem) <= MaxAccess
        /\ user_memories' = [user_memories EXCEPT ![the_user] = r.mem]
        /\ result' = [op |-> "retrieve_relevant_memories", context |-> in.context,
                      limit |-> in.limit, memory_types |-> in.memory_types, ret |-> r.ret]
        /\ UNCHANGED <<registry, now, requests, st_log, ctx_log, constructed, next_oid>>

GetRelevantMemories ==
  \E in \in QueryInputs :
    \E r \in {get_relevant_memories(user_memories[the_user], in.query, in.limit)} :
        /\ user_memories' = [user_memories EXCEPT ![the_user] = r.mem]
        /\ result' = [op |-> "get_relevant_memories", query |-> in.query,
                      limit |-> in.limit, ret |-> r.ret]
        /\ UNCHANGED <<registry, now, requests, st_log, ctx_log, constructed, next_oid>>

\* removed is the number the method logs ("Cleaned up n old memories")
CleanupOldMemories ==
  \E mem \in {cleanup_old_memories(user_memories[the_user], now)} :
    /\ user_memories' = [user_memories EXCEPT ![the_user] = mem]
    /\ result' = [op |-> "cleanup_old_memories",
                  removed |-> Len(user_memories[the_user].long_term_memory)
                                - Len(mem.long_term_memory)]
  /\ UNCHANGED <<registry, now, requests, st_log, ctx_log, constructed, next_oid>>

Tick ==
  /\ now < MaxTime
  /\ now' = now + 1
  /\ result' = [op |-> "tick"]
  /\ UNCHANGED <<user_memories, registry, requests, st_log, ctx_log, constructed, next_oid>>

\* ingestion and retrieval, at one instant of the clock
NextStore ==
  \/ AddShortTermMemory
  \/ AddLongTermMemory
  \/ RetrieveRelevantMemories

SpecStore == InitStore /\ [][NextStore]_vars

\* ingestion and lookup by query, at one instant of the clock
NextLookup ==
  \/ AddShortTermMemory
  \/ AddLongTermMemory
  \/ GetRelevantMemories

SpecLookup == InitStore /\ [][NextLookup]_vars

\* ingestion and pruning, as time passes
NextCleanup ==
  \/ AddShortTermMemory
  \/ AddLongTermMemory
  \/ CleanupOldMemories
  \/ Tick

SpecCleanup == InitStore /\ [][NextCleanup]_vars

(***************************************************************************)
(* get_relevant_memories as a function of the store: the stores are the    *)
(* ones a new store reaches by appends to the queue and inserts into the   *)
(* map, each insert reading a new clock value.                             *)
(***************************************************************************)
QueryLongTermInputs ==
  LongTermInputs \cup {[content |-> s_c, importance |-> 6, memory_type |-> "preference"]}

RECURSIVE add_all_short(_, _, _)
add_all_short(mem, inputs, oid) ==
  IF inputs = <<>> THEN mem
  ELSE add_all_short(add_short_term_memory(mem, Head(inputs).message, Head(inputs).importance,
                                           0, oid),
                     Tail(inputs), oid + 1)

RECURSIVE add_all_long(_, _, _)
add_all_long(mem, inputs, oid) ==
  IF inputs = <<>> THEN mem
  ELSE add_all_long(add_long_term_memory(mem, Head(inputs).content, Head(inputs).importance,
                                         Head(inputs).memory_type, 0, oid, <<0, oid>>).mem,
                    Tail(inputs), oid + 1)

InitQuery ==
  \E ns \in 0..short_term_memory_size, nl \in 0..MaxLongTerm :
    \E shorts \in [1..ns -> ShortTermInputs], longs \in [1..nl -> QueryLongTermInputs] :
      \E mem \in {add_all_long(add_all_short(ConversationMemory(the_user), AsSeq(shorts), 1),
                               AsSeq(longs), 1)} :
        /\ user_memories = [u \in {the_user} |-> mem]
        /\ registry = <<the_user>>
        /\ now = 0
        /\ result = [op |-> "init"]
        /\ requests = <<>>
        /\ st_log = [u \in {the_user} |-> mem.short_term_memory]
        /\ ctx_log = <<>>
        /\ constructed = [u \in {the_user} |-> 1]
        /\ next_oid = [u \in {the_user} |-> [short |-> ns + 1, long |-> nl + 1]]

NextQuery == GetRelevantMemories

SpecQuery == InitQuery /\ [][NextQuery]_vars

(***************************************************************************)
(* _calculate_relevance as a function of two strings: every pair of        *)
(* strings of at most MaxTextLen characters over a small alphabet.         *)
(***************************************************************************)
Alphabet == {"a", "A", "b", " "}

Strings == UNION {[1..n -> Alphabet] : n \in 0..MaxTextLen}

InitRelevance ==
  \E context \in Strings, memory_content \in Strings :
    /\ user_memories = <<>>
    /\ registry = <<>>
    /\ now = 0
    /\ result = [op |-> "init", context |-> AsSeq(context),
                 memory_content |-> AsSeq(memory_content)]
    /\ requests = <<>>
    /\ st_log = <<>>
    /\ ctx_log = <<>>
    /\ constructed = <<>>
    /\ next_oid = <<>>

CalculateRelevance ==
  /\ result.op = "init"
  /\ result' = [op |-> "calculate_relevance", context |-> result.context,
                memory_content |-> result.memory_content,
                ret |-> calculate_relevance(result.context, result.memory_content)]
  /\ UNCHANGED <<user_memories, registry, now, requests, st_log, ctx_log, constructed, next_oid>>

NextRelevance == CalculateRelevance

SpecRelevance == InitRelevance /\ [][NextRelevance]_vars

(***************************************************************************)
(* to_dict and from_dict.  A datetime goes out as text (isoformat) and     *)
(* comes back through fromisoformat; here the text is the decimal digits   *)
(* of the clock value.  MemoryItem.from_dict constructs the item, which    *)
(* stamps it with the time of the construction, and then overwrites the    *)
(* two timestamps and the access count from the data.                      *)
(***************************************************************************)
digit_char(d) ==
  CASE d = 0 -> "0" [] d = 1 -> "1" [] d = 2 -> "2" [] d = 3 -> "3" [] d = 4 -> "4"
    [] d = 5 -> "5" [] d = 6 -> "6" [] d = 7 -> "7" [] d = 8 -> "8" [] OTHER -> "9"

char_digit(c) ==
  CASE c = "0" -> 0 [] c = "1" -> 1 [] c = "2" -> 2 [] c = "3" -> 3 [] c = "4" -> 4
    [] c = "5" -> 5 [] c = "6" -> 6 [] c = "7" -> 7 [] c = "8" -> 8 [] OTHER -> 9

isoformat(t) ==
  IF t < 10 THEN <<digit_char(t)>> ELSE <<digit_char(t \div 10), digit_char(t % 10)>>

RECURSIVE fromisoformat(_)
fromisoformat(s) ==
  IF s = <<>> THEN 0
  ELSE 10 * fromisoformat(SubSeq(s, 1, Len(s) - 1)) + char_digit(s[Len(s)])

MemoryItem_to_dict(x) ==
  [content |-> x.content, importance |-> x.importance, memory_type |-> x.memory_type,
   metadata |-> [role |-> x.role],
   created_at |-> isoformat(x.created_at), last_accessed |-> isoformat(x.last_accessed),
   access_count |-> x.access_count]

\* an item rebuilt by its constructor alone
MemoryItem_from_dict_as_new(data, t, oid) ==
  MemoryItem(data.content, data.importance, data.memory_type, data.metadata.role, t, oid)

MemoryItem_from_dict(data, t, oid) ==
  [MemoryItem(data.content, data.importance, data.memory_type, data.metadata.role, t, oid)
     EXCEPT !.created_at = fromisoformat(data.created_at),
            !.last_accessed = fromisoformat(data.last_accessed),
            !.access_count = data.access_count]

\* Message.dict() and Message(**data)
Message_dict(msg) == [role |-> msg.role, content |-> msg.content]

Message_from(data) == Message(data.role, data.content)

ConversationMemory_to_dict(mem) ==
  [user_id |-> mem.user_id,
   short_term_memory |->
     AsSeq([i \in 1..Len(mem.short_term_memory) |-> MemoryItem_to_dict(mem.short_term_memory[i])]),
   long_term_memory |->
     AsSeq([i \in 1..Len(mem.long_term_memory) |->
              [id |-> mem.long_term_memory[i].id,
               item |-> MemoryItem_to_dict(mem.long_term_memory[i].item)]]),
   user_preferences |-> mem.user_preferences,
   conversation_contexts |->
     AsSeq([i \in 1..Len(mem.conversation_contexts) |->
              [id |-> mem.conversation_contexts[i].id,
               item |-> AsSeq([k \in 1..Len(mem.conversation_contexts[i].item) |->
                                 Message_dict(mem.conversation_contexts[i].item[k])])]])]

RECURSIVE restore_short(_, _, _, _)
restore_short(q, data, t, oid) ==
  IF data = <<>> THEN q
  ELSE restore_short(deque_append(q, MemoryItem_from_dict(Head(data), t, oid)),
                     Tail(data), t, oid + 1)

RECURSIVE restore_long(_, _, _, _)
restore_long(d, data, t, oid) ==
  IF data = <<>> THEN d
  ELSE restore_long(dict_set(d, Head(data).id, MemoryItem_from_dict(Head(data).item, t, oid)),
                    Tail(data), t, oid + 1)

RECURSIVE restore_contexts(_, _)
restore_contexts(d, data) ==
  IF data = <<>> THEN d
  ELSE restore_contexts(
         dict_set(d, Head(data).id,
                  AsSeq([k \in 1..Len(Head(data).item) |-> Message_from(Head(data).item[k])])),
         Tail(data))

ConversationMemory_from_dict(data, t) ==
  LET memory == ConversationMemory(data.user_id)
  IN  [memory EXCEPT
         !.short_term_memory = restore_short(@, data.short_term_memory, t, 1),
         !.long_term_memory = restore_long(@, data.long_term_memory, t, 1),
         !.user_preferences = data.user_preferences,
         !.conversation_contexts = restore_contexts(@, data.conversation_contexts)]

\* the stores that are exported: filled at time 0 by a process whose queue
\* was one item longer than the one configured here, some of them read at
\* time 1
RECURSIVE queue_of(_, _)
queue_of(inputs, oid) ==
  IF inputs = <<>> THEN <<>>
  ELSE <<MemoryItem(Head(inputs).message.content, Head(inputs).importance, "conversation",
                    Head(inputs).message.role, 0, oid)>> \o queue_of(Tail(inputs), oid + 1)

exported_store(shorts, longs, touched, preferred, threads) ==
  LET m0 == [ConversationMemory(the_user) EXCEPT !.short_term_memory = queue_of(shorts, 1)]
      m1 == add_all_long(m0, longs, 1)
      m2 == IF touched THEN retrieve_relevant_memories(m1, s_a, 2, None, 1).mem ELSE m1
      m3 == IF preferred THEN add_user_preference(m2, "tone", "warm") ELSE m2
      m4 == IF threads >= 1
              THEN update_conversation_context(m3, "c1", <<Message("user", s_ac)>>) ELSE m3
  IN  IF threads >= 2
        THEN update_conversation_context(m4, "c2",
               <<Message("user", s_a), Message("assistant", s_c)>>)
        ELSE m4

InitRoundTrip ==
  \E ns \in 0..(short_term_memory_size + 1), nl \in 0..MaxLongTerm :
    \E shorts \in [1..ns -> ShortTermInputs], longs \in [1..nl -> LongTermInputs] :
      \E touched \in BOOLEAN, preferred \in BOOLEAN, threads \in 0..2 :
        \E mem \in {exported_store(AsSeq(shorts), AsSeq(longs), touched, preferred, threads)} :
          /\ user_memories = [u \in {the_user} |-> mem]
          /\ registry = <<the_user>>
          /\ now = MaxTime
          /\ result = [op |-> "init"]
          /\ requests = <<>>
          /\ st_log = <<>>
          /\ ctx_log = <<>>
          /\ constructed = [u \in {the_user} |-> 1]
          /\ next_oid = [u \in {the_user} |-> [short |-> ns + 1, long |-> nl + 1]]

\* to_dict of the store, from_dict of that, and to_dict of the rebuilt store
RoundTrip ==
  \E data \in {ConversationMemory_to_dict(user_memories[the_user])} :
    /\ result.op = "init"
    /\ result' = [op |-> "round_trip", exported |-> data,
                  again |-> ConversationMemory_to_dict(ConversationMemory_from_dict(data, now))]
    /\ UNCHANGED <<user_memories, registry, now, requests, st_log, ctx_log, constructed,
                   next_oid>>

NextRoundTrip == RoundTrip

SpecRoundTrip == InitRoundTrip /\ [][NextRoundTrip]_vars

(***************************************************************************)
(* MemoryManager and the chat turn (LLMService.generate_response).  Every  *)
(* handler is a coroutine on one event loop: a turn runs without           *)
(* interruption up to "await self._call_llm", and from the return of the   *)
(* call to its end.  requests lists the turns by arrival, with the point   *)
(* each has reached; ctx_log[u][c] lists the messages the turns of user u  *)
(* handed to conversation c; constructed[u] counts the ConversationMemory  *)
(* objects built for u.                                                    *)
(***************************************************************************)
ConvIds == {"c1"}

\* the content of the reply of the model
response_content == s_c

\* the keywords of _evaluate_message_importance and the patterns of
\* _extract_important_info, in the alphabet of the model
important_keywords == {<<"c">>, <<"d">>, <<"e">>, <<"f">>, <<"g">>}

important_patterns == {<<"A">>}

\* a store that is built on every call
get_user_memory_fresh(memories, user_id) ==
  [memories |-> (user_id :> ConversationMemory(user_id)) @@ memories, constructed |-> 1]

\* a store that is built for an unknown user and handed out without being
\* put in the registry
get_user_memory_unregistered(memories, user_id) ==
  IF user_id \notin DOMAIN memories
    THEN [memories |-> memories, constructed |-> 1]
    ELSE [memories |-> memories, constructed |-> 0]

\* check-then-insert, with no suspension point in between
get_user_memory(memories, user_id) ==
  IF user_id \notin DOMAIN memories
    THEN [memories |-> (user_id :> ConversationMemory(user_id)) @@ memories, constructed |-> 1]
    ELSE [memories |-> memories, constructed |-> 0]

\* a thread written from the messages of the request alone
prepare_from_request_only(request, mem) ==
  IF request.conversation_id = None
    THEN [mem |-> mem, all_messages |-> request.messages]
    ELSE [mem |-> update_conversation_context(mem, request.conversation_id[1], request.messages),
          all_messages |-> request.messages]

prepare_conversation_context(request, mem) ==
  IF request.conversation_id = None
    THEN [mem |-> mem, all_messages |-> request.messages]
    ELSE LET existing_context == get_conversation_context(mem, request.conversation_id[1])
             all_messages == existing_context \o request.messages
         IN  [mem |-> update_conversation_context(mem, request.conversation_id[1], all_messages),
              all_messages |-> all_messages]

\* _create_system_prompt: with aiSettings the prompt builder retrieves the
\* memories relevant to the last message (limit 3, the three default types)
create_system_prompt(request, mem, conversation_context, t) ==
  IF request.aiSettings /\ conversation_context # <<>>
    THEN retrieve_relevant_memories(mem, conversation_context[Len(conversation_context)].content,
                                    3, Some(DefaultTypes), t)
    ELSE [mem |-> mem, ret |-> <<>>]

\* an evaluation without the cap at 10
evaluate_message_importance_uncapped(content) ==
  LET content_lower == lower(content)
      hits == Cardinality({k \in important_keywords : contains(content_lower, k)})
  IN  1 + 2 * hits + (IF Len(content) > 100 THEN 1 ELSE 0)

evaluate_message_importance(content) ==
  LET content_lower == lower(content)
      hits == Cardinality({k \in important_keywords : contains(content_lower, k)})
      importance == 1 + 2 * hits + (IF Len(content) > 100 THEN 1 ELSE 0)
  IN  IF importance < 10 THEN importance ELSE 10

is_user(msg) == msg.role = "user"

extract_important_info(messages) ==
  LET hit(msg) == is_user(msg) /\ \E p \in important_patterns : contains(msg.content, p)
      hits == SelectSeq(messages, hit)
  IN  IF hits = <<>> THEN None ELSE Some(info_prefix \o hits[1].content)

\* the items _update_memory constructs for the queue: the user messages of
\* the request, then the reply with importance 2
update_items(request, response, t, oid) ==
  LET user_messages == SelectSeq(request.messages, is_user)
  IN  AsSeq([i \in 1..(Len(user_messages) + 1) |->
        IF i <= Len(user_messages)
          THEN MemoryItem(user_messages[i].content,
                          evaluate_message_importance(user_messages[i].content),
                          "conversation", "user", t, oid + i - 1)
          ELSE MemoryItem(response, 2, "conversation", "assistant", t, oid + i - 1)])

RECURSIVE append_all(_, _)
append_all(q, items) ==
  IF items = <<>> THEN q ELSE append_all(deque_append(q, Head(items)), Tail(items))

update_memory(request, response, mem, t, oid_short, oid_long, reading) ==
  LET items == update_items(request, response, t, oid_short)
      mem1 == [mem EXCEPT !.short_term_memory = append_all(@, items)]
      important_info == extract_important_info(request.messages)
  IN  [mem |-> IF important_info # None
                 THEN add_long_term_memory(mem1, important_info[1], 7, "conversation",
                                           t, oid_long, reading).mem
                 ELSE mem1,
       appended |-> items,
       long_added |-> important_info # None]

\* ChatRequest: conversation_id, messages, aiSettings (given or not)
ChatInputs ==
  { [conversation_id |-> Some("c1"), messages |-> <<Message("user", s_ab)>>,
     aiSettings |-> TRUE],
    [conversation_id |-> Some("c1"),
     messages |-> <<Message("system", s_a), Message("user", s_Ab)>>, aiSettings |-> FALSE],
    [conversation_id |-> None, messages |-> <<Message("user", s_a)>>, aiSettings |-> TRUE],
    [conversation_id |-> None, messages |-> <<Message("user", s_cdefg)>>,
     aiSettings |-> FALSE] }

InitChat ==
  /\ user_memories = <<>>
  /\ registry = <<>>
  /\ now = 0
  /\ result = [op |-> "init"]
  /\ requests = <<>>
  /\ st_log = [u \in Users |-> <<>>]
  /\ ctx_log = [u \in Users |-> [c \in ConvIds |-> <<>>]]
  /\ constructed = [u \in Users |-> 0]
  /\ next_oid = [u \in Users |-> [short |-> 1, long |-> 1]]

\* generate_response up to the await: get_user_memory,
\* _prepare_conversation_context, _create_system_prompt.  wrote tells
\* whether these steps changed the store of the user.
StartTurn ==
  \E u \in Users, in \in ChatInputs :
    \E g \in {get_user_memory(user_memories, u)} :
      \E p \in {prepare_conversation_context(in, g.memories[u])} :
        \E s \in {create_system_prompt(in, p.mem, p.all_messages, now)} :
          /\ Len(requests) < MaxRequests
          /\ user_memories' = (u :> s.mem) @@ g.memories
          /\ constructed' = [constructed EXCEPT ![u] = @ + g.constructed]
          /\ requests' = Append(requests,
                [user_id |-> u, conversation_id |-> in.conversation_id,
                 messages |-> in.messages, aiSettings |-> in.aiSettings,
                 pc |-> "awaiting",
                 instance |-> constructed[u] + g.constructed,
                 created |-> g.constructed = 1,
                 wrote |-> s.mem # (IF u \in DOMAIN user_memories
                                      THEN user_memories[u] ELSE ConversationMemory(u)),
                 in_flight |-> {i \in 1..Len(requests) : requests[i].pc = "awaiting"},
                 first_oid |-> 0])
          /\ ctx_log' = IF in.conversation_id = None THEN ctx_log
                        ELSE [ctx_log EXCEPT ![u][in.conversation_id[1]] = @ \o in.messages]
          /\ result' = [op |-> "generate_response", request |-> Len(requests) + 1,
                        outcome |-> "awaiting"]
          /\ registry' = IF g.constructed = 1 THEN Append(registry, u) ELSE registry
          /\ UNCHANGED <<now, st_log, next_oid>>

\* the call returned: _update_memory, then the response
ModelCallReturns ==
  \E r \in 1..Len(requests) :
    LET u == requests[r].user_id IN
    LET info == extract_important_info(requests[r].messages) IN
    \E reading \in (IF info = None THEN {<<now, 0>>}
                    ELSE time_time(user_memories[u], now)) :
    \E m \in {update_memory(requests[r], response_content, user_memories[u], now,
                            next_oid[u].short, next_oid[u].long, reading)} :
      /\ requests[r].pc = "awaiting"
      /\ user_memories' = [user_memories EXCEPT ![u] = m.mem]
      /\ st_log' = [st_log EXCEPT ![u] = @ \o m.appended]
      /\ next_oid' = [next_oid EXCEPT ![u] =
            [short |-> @.short + Len(m.appended),
             long |-> @.long + (IF m.long_added THEN 1 ELSE 0)]]
      /\ requests' = [requests EXCEPT ![r].pc = "done", ![r].first_oid = next_oid[u].short]
      /\ result' = [op |-> "generate_response", request |-> r, outcome |-> "response"]
      /\ UNCHANGED <<registry, now, ctx_log, constructed>>

\* the call raised: the except clause logs and re-raises
ModelCallFails ==
  \E r \in 1..Len(requests) :
    /\ requests[r].pc = "awaiting"
    /\ requests' = [requests EXCEPT ![r].pc = "failed"]
    /\ result' = [op |-> "generate_response", request |-> r, outcome |-> "raised"]
    /\ UNCHANGED <<user_memories, registry, now, st_log, ctx_log, constructed, next_oid>>

NextChat ==
  \/ StartTurn
  \/ ModelCallReturns
  \/ ModelCallFails

SpecChat == InitChat /\ [][NextChat]_vars

(***************************************************************************)
(* PromptBuilder and the prompt endpoint.  A prompt is the sequence of the *)
(* pieces of text that are concatenated, in order; a stored content adds   *)
(* its characters.  AiSettings is [nickname, speechStyle]; the other       *)
(* settings only select wordings inside the base block.                    *)
(***************************************************************************)
Separator == "\n\n"

get_speech_instruction(speech_style) ==
  IF speech_style = "banmal" THEN "casual speech only" ELSE "formal speech only"

get_example_response(speech_style) ==
  IF speech_style = "banmal" THEN "casual example" ELSE "formal example"

create_base_personality_prompt(ai_settings) ==
  LET nickname == IF ai_settings.nickname = "" THEN "friend" ELSE ai_settings.nickname
  IN  <<"Luna, AI friend of ", nickname, get_speech_instruction(ai_settings.speechStyle),
        get_example_response(ai_settings.speechStyle), "rules">>

\* sep.join(parts), each part a sequence of pieces
RECURSIVE join(_, _)
join(sep, parts) ==
  IF parts = <<>> THEN <<>>
  ELSE IF Len(parts) = 1 THEN parts[1]
  ELSE parts[1] \o <<sep>> \o join(sep, Tail(parts))

has_key(d, key) == \E i \in 1..Len(d) : d[i].id = key

value_of(d, key) == (CHOOSE e \in {d[i] : i \in 1..Len(d)} : e.id = key).item

\* the line of one preference key: the label and the values joined by ", "
info_line(user_preferences, key, label) ==
  IF has_key(user_preferences, key) /\ value_of(user_preferences, key) # <<>>
    THEN <<(<<"- ", label>> \o
            join(", ", AsSeq([i \in 1..Len(value_of(user_preferences, key)) |->
                                <<value_of(user_preferences, key)[i]>>])))>>
    ELSE <<>>

create_user_info_prompt(user_memory) ==
  LET user_preferences == user_memory.user_preferences
      user_info == info_line(user_preferences, "interests", "interests: ")
                   \o info_line(user_preferences, "current_goals", "goals: ")
                   \o info_line(user_preferences, "preferred_topics", "topics: ")
  IN  IF user_preferences = <<>> THEN <<>>
      ELSE IF user_info # <<>> THEN <<"user info:\n">> \o join("\n", user_info)
      ELSE <<>>

RECURSIVE numbered(_, _, _)
numbered(user_memory, refs, i) ==
  IF i > Len(refs) THEN <<>>
  ELSE LET memory == IF refs[i].kind = "short"
                       THEN user_memory.short_term_memory[refs[i].idx]
                       ELSE user_memory.long_term_memory[refs[i].idx].item
       IN  <<digit_char(i), ". ">> \o memory.content \o <<"\n">>
           \o numbered(user_memory, refs, i + 1)

\* the block of the memories that were found
memory_prompt_of(user_memory, relevant_memories) ==
  IF relevant_memories = <<>> THEN <<>>
  ELSE <<"related memories:\n">> \o numbered(user_memory, relevant_memories, 1)
       \o <<"\nkeep to these memories">>

\* the store as the retrieval leaves it, and the block
after_retrieval(user_memory, retrieved) ==
  [mem |-> retrieved.mem, prompt |-> memory_prompt_of(user_memory, retrieved.ret)]

\* a memory block made without touching the store
create_memory_prompt_reading(user_memory, conversation_context, t) ==
  [mem |-> user_memory,
   prompt |-> memory_prompt_of(
                user_memory,
                retrieve_relevant_memories(
                  user_memory, conversation_context[Len(conversation_context)].content,
                  3, Some(DefaultTypes), t).ret)]

\* _create_memory_prompt for a non-empty context: the store after the
\* retrieval and the block
create_memory_prompt(user_memory, conversation_context, t) ==
  after_retrieval(
    user_memory,
    retrieve_relevant_memories(user_memory,
                               conversation_context[Len(conversation_context)].content,
                               3, Some(DefaultTypes), t))

RECURSIVE context_lines(_)
context_lines(messages) ==
  IF messages = <<>> THEN <<>>
  ELSE <<(IF Head(messages).role = "user" THEN "person" ELSE "robot"), " ">>
       \o Head(messages).content \o <<"\n">> \o context_lines(Tail(messages))

create_context_prompt(conversation_context) ==
  IF conversation_context = <<>> THEN <<>>
  ELSE <<"recent conversation:\n">> \o context_lines(suffix(conversation_context, 3))
       \o <<"\nkeep to this context">>

\* a context is true when it is given and has a turn
has_turns(conversation_context) ==
  conversation_context # None /\ conversation_context[1] # <<>>

\* the prompt from its parts; made is the store and the memory block
assemble(base_prompt, user_info_part, made, context_part) ==
  [mem |-> made.mem,
   prompt |-> base_prompt \o user_info_part
              \o (IF made.prompt # <<>> THEN <<Separator>> \o made.prompt ELSE <<>>)
              \o context_part]

given_store(made) == [mem |-> Some(made.mem), prompt |-> made.prompt]

\* user_memory and conversation_context are None or Some(value); a store is
\* true.  The user-info block is appended behind its separator whatever it
\* holds.
create_personalized_system_prompt(ai_settings, user_memory, conversation_context, t) ==
  assemble(
    create_base_personality_prompt(ai_settings),
    IF user_memory # None
      THEN <<Separator>> \o create_user_info_prompt(user_memory[1]) ELSE <<>>,
    IF user_memory # None /\ has_turns(conversation_context)
      THEN given_store(create_memory_prompt(user_memory[1], conversation_context[1], t))
      ELSE [mem |-> user_memory, prompt |-> <<>>],
    IF has_turns(conversation_context)
      THEN <<Separator>> \o create_context_prompt(conversation_context[1]) ELSE <<>>)

\* the non-system turns of the whole context, then the last of them
recent_of_non_system(conversation_context, maxContextMessages) ==
  LET not_system(msg) == msg.role # "system"
  IN  suffix(SelectSeq(conversation_context, not_system), maxContextMessages)

\* conversation_context[-maxContextMessages:] without its system turns
recent_messages(conversation_context, maxContextMessages) ==
  LET not_system(msg) == msg.role # "system"
  IN  SelectSeq(suffix(conversation_context, maxContextMessages), not_system)

\* steps 5 to 7 of generate_prompt: the message list and the response
prompt_response(memories, made, request, conversation_context, system_prompt, relevant) ==
  [memories |-> memories,
   constructed |-> made,
   response |->
     [systemPrompt |-> system_prompt,
      messages |-> <<Message("system", system_prompt)>>
                   \o (IF has_turns(conversation_context)
                         THEN recent_messages(conversation_context[1],
                                              request.maxContextMessages)
                         ELSE <<>>)
                   \o <<Message("user", request.message)>>,
      contextLength |-> Len(IF has_turns(conversation_context)
                              THEN recent_messages(conversation_context[1],
                                                   request.maxContextMessages)
                              ELSE <<>>),
      memoryIncluded |-> TRUE,
      relevantMemories |-> relevant.ret]]

\* step 4: get_relevant_memories on the store the prompt builder left
with_relevant(g, request, conversation_context, built) ==
  prompt_response([g.memories EXCEPT ![request.userId] = built.mem[1]], g.constructed,
                  request, conversation_context, built.prompt,
                  get_relevant_memories(built.mem[1], request.message, 3))

\* step 3: the system prompt
with_prompt(g, request, conversation_context, t) ==
  with_relevant(g, request, conversation_context,
                create_personalized_system_prompt(request.aiSettings,
                                                  Some(g.memories[request.userId]),
                                                  conversation_context, t))

\* step 2: the context of the conversation, if one is named
with_conversation(g, request, t) ==
  with_prompt(g, request,
              IF request.conversationId # None
                THEN Some(get_conversation_context(g.memories[request.userId],
                                                   request.conversationId[1]))
                ELSE None,
              t)

\* generate_prompt: the stores after the request and the response
generate_prompt(memories, request, t) ==
  with_conversation(get_user_memory(memories, request.userId), request, t)

AiSettingsInputs ==
  {[nickname |-> "", speechStyle |-> "banmal"], [nickname |-> "Mina", speechStyle |-> "formal"]}

\* the preference bags of the stores that are rendered
PromptPreferences ==
  {<<>>,
   <<[key |-> "tone", value |-> <<"calm">>]>>,
   <<[key |-> "interests", value |-> <<>>]>>,
   <<[key |-> "interests", value |-> <<"music", "tea">>]>>,
   <<[key |-> "current_goals", value |-> <<"rest">>],
     [key |-> "preferred_topics", value |-> <<"books">>]>>}

\* the turns that earlier chat turns have sent for the threads p1 and p2
PromptThreads ==
  {<<>>,
   <<[id |-> "p1", turns |-> <<Message("user", s_a), Message("assistant", s_c),
                               Message("user", s_ab)>>]>>,
   <<[id |-> "p1", turns |-> <<Message("user", s_a), Message("system", s_c),
                               Message("user", s_ab)>>]>>,
   <<[id |-> "p1", turns |-> <<Message("user", s_ab), Message("assistant", s_c)>>],
     [id |-> "p2", turns |-> <<>>]>>}

PromptConvIds == {None, Some("p1"), Some("p2")}

MaxContextInputs == 1..3

RECURSIVE add_all_preferences(_, _)
add_all_preferences(mem, inputs) ==
  IF inputs = <<>> THEN mem
  ELSE add_all_preferences(add_user_preference(mem, Head(inputs).key, Head(inputs).value),
                           Tail(inputs))

RECURSIVE update_all_contexts(_, _)
update_all_contexts(mem, inputs) ==
  IF inputs = <<>> THEN mem
  ELSE update_all_contexts(update_conversation_context(mem, Head(inputs).id, Head(inputs).turns),
                           Tail(inputs))

\* n inputs, the two kinds in turn
in_turn(first, second, n) == AsSeq([i \in 1..n |-> IF i % 2 = 1 THEN first ELSE second])

InitPrompt ==
  \E ns \in 0..short_term_memory_size, nl \in 0..MaxLongTerm :
    \E preferences \in PromptPreferences, threads \in PromptThreads :
      LET from_user == CHOOSE x \in ShortTermInputs : x.message.role = "user"
          from_assistant == CHOOSE x \in ShortTermInputs : x.message.role = "assistant"
          conversation == CHOOSE x \in LongTermInputs : x.memory_type = "conversation"
          important == CHOOSE x \in LongTermInputs : x.memory_type = "important"
      IN
        \E mem \in {update_all_contexts(
                      add_all_preferences(
                        add_all_long(add_all_short(ConversationMemory(the_user),
                                                   in_turn(from_user, from_assistant, ns), 1),
                                     in_turn(conversation, important, nl), 1),
                        preferences),
                      threads)} :
          /\ user_memories = [u \in {the_user} |-> mem]
          /\ registry = <<the_user>>
          /\ now = 1
          /\ result = [op |-> "init"]
          /\ requests = <<>>
          /\ st_log = <<>>
          /\ ctx_log = <<>>
          /\ constructed = [u \in {the_user} |-> 1]
          /\ next_oid = [u \in {the_user} |-> [short |-> ns + 1, long |-> nl + 1]]

\* one prompt is rendered on each store, at time 1.  The builder called
\* directly, with or without the store, with or without a context
CreatePersonalizedSystemPrompt ==
  \E ai_settings \in AiSettingsInputs, with_memory \in BOOLEAN, conv \in PromptConvIds :
    LET before == user_memories[the_user]
        user_memory == IF with_memory THEN Some(before) ELSE None
        conversation_context ==
          IF conv = None THEN None ELSE Some(get_conversation_context(before, conv[1]))
    IN  \E r \in {create_personalized_system_prompt(ai_settings, user_memory,
                                                    conversation_context, now)} :
          /\ requests = <<>>
          /\ requests' = Append(requests, [op |-> "create_personalized_system_prompt",
                                           user_id |-> the_user])
          /\ user_memories' = IF r.mem # None
                                THEN [user_memories EXCEPT ![the_user] = r.mem[1]]
                                ELSE user_memories
          /\ result' = [op |-> "create_personalized_system_prompt",
                        ai_settings |-> ai_settings, user_memory |-> user_memory,
                        conversation_context |-> conversation_context,
                        before |-> before, prompt |-> r.prompt]
          /\ UNCHANGED <<registry, now, st_log, ctx_log, constructed, next_oid>>

GeneratePrompt ==
  \E ai_settings \in AiSettingsInputs, conv \in PromptConvIds,
     maxContextMessages \in MaxContextInputs, message \in {s_a} :
    LET request == [userId |-> the_user, conversationId |-> conv, message |-> message,
                    aiSettings |-> ai_settings, maxContextMessages |-> maxContextMessages]
    IN  \E r \in {generate_prompt(user_memories, request, now)} :
          /\ requests = <<>>
          /\ requests' = Append(requests, [op |-> "generate_prompt", user_id |-> the_user])
          /\ user_memories' = r.memories
          /\ result' = [op |-> "generate_prompt", request |-> request,
                        before |-> user_memories[the_user], response |-> r.response]
          /\ UNCHANGED <<registry, now, st_log, ctx_log, constructed, next_oid>>

NextPrompt ==
  \/ CreatePersonalizedSystemPrompt
  \/ GeneratePrompt

SpecPrompt == InitPrompt /\ [][NextPrompt]_vars

(***************************************************************************)
(* The stores of several users behind the one MemoryManager.  A caller     *)
(* gets a store with get_user_memory and calls its methods; requests is    *)
(* the log of the calls made, MaxRequests of them at most.  The starting   *)
(* point is a manager that served two users MaxTime days ago.              *)
(***************************************************************************)
new_user == "u3"

AllUsers == Users \cup {new_user}

\* the turns of a thread one longer than a thread is kept
long_thread ==
  AsSeq([i \in 1..(max_conversation_history + 1) |->
           IF i = 1 THEN Message("user", s_a)
           ELSE IF i % 2 = 0 THEN Message("assistant", s_ab) ELSE Message("user", s_c)])

\* update_conversation_context(conversation_id, messages)
ContextInputs ==
  { [conversation_id |-> "c1", messages |-> long_thread],
    [conversation_id |-> "c2", messages |-> <<Message("user", s_ab)>>] }

\* get_conversation_context(conversation_id)
ContextIds == {"c1", "c3"}

\* add_user_preference(key, value)
PreferenceInputs == { [key |-> "tone", value |-> "calm"] }

\* a store that was used at time 0: an item in the queue and an entry in
\* the map, both below importance 7, two threads and a preference
used_store(user_id) ==
  LET m1 == add_short_term_memory(ConversationMemory(user_id),
                                  Message("assistant", s_abcd), 6, 0, 1)
      m2 == add_long_term_memory(m1, s_Ab, 6, "conversation", 0, 1, <<0, 1>>).mem
      m3 == update_conversation_context(m2, "c1", <<Message("user", s_ac)>>)
      m4 == update_conversation_context(m3, "c2", <<Message("user", s_a)>>)
  IN  add_user_preference(m4, "tone", "warm")

\* state held by the class instead of the instance: what is written through
\* one store is seen through every store
write_shared(memories, user_id, mem) ==
  [v \in DOMAIN memories |-> [mem EXCEPT !.user_id = v]]

\* the containers are attributes of the instance, made in __init__: what is
\* written through the store of user_id changes that store alone
write_store(memories, user_id, mem) ==
  [memories EXCEPT ![user_id] = mem]

\* a lookup that registers an empty thread for an id it does not find
get_or_register_context(mem, conversation_id) ==
  [mem |-> IF \E i \in 1..Len(mem.conversation_contexts) :
                 mem.conversation_contexts[i].id = conversation_id
             THEN mem
             ELSE [mem EXCEPT !.conversation_contexts = dict_set(@, conversation_id, <<>>)],
   ret |-> get_conversation_context(mem, conversation_id)]

\* the call of get_conversation_context: dict.get with a default reads the
\* dict and leaves it as it is
read_conversation_context(mem, conversation_id) ==
  [mem |-> mem, ret |-> get_conversation_context(mem, conversation_id)]

\* cleanup_all_memories: the loop over user_memories.items(), in insertion
\* order.  raising is the set of users whose cleanup_old_memories raises (it
\* raises in its first loop, before anything is deleted); there is no
\* handler in the loop, so the exception ends the pass.
RECURSIVE cleanup_all_memories(_, _, _, _)
cleanup_all_memories(memories, order, raising, t) ==
  IF order = <<>> THEN [memories |-> memories, raised |-> FALSE]
  ELSE IF Head(order) \in raising
         THEN [memories |-> memories, raised |-> TRUE]
         ELSE cleanup_all_memories(
                [memories EXCEPT ![Head(order)] = cleanup_old_memories(@, t)],
                Tail(order), raising, t)

InitUsers ==
  /\ user_memories = [u \in Users |-> used_store(u)]
  /\ registry = <<"u1", "u2">>
  /\ now = MaxTime
  /\ result = [op |-> "init"]
  /\ requests = <<>>
  /\ st_log = [u \in AllUsers |-> IF u \in Users THEN used_store(u).short_term_memory ELSE <<>>]
  /\ ctx_log = <<>>
  /\ constructed = [u \in AllUsers |-> IF u \in Users THEN 1 ELSE 0]
  /\ next_oid = [u \in AllUsers |-> IF u \in Users THEN [short |-> 2, long |-> 2]
                                    ELSE [short |-> 1, long |-> 1]]

\* one more call, written to the log
Call(op, user_id) ==
  /\ Len(requests) < MaxRequests
  /\ requests' = Append(requests, [op |-> op, user_id |-> user_id])

GetUserMemory ==
  \E u \in AllUsers :
    \E g \in {get_user_memory(user_memories, u)} :
      /\ Call("get_user_memory", u)
      /\ user_memories' = g.memories
      /\ registry' = IF g.constructed = 1 THEN Append(registry, u) ELSE registry
      /\ constructed' = [constructed EXCEPT ![u] = @ + g.constructed]
      /\ result' = [op |-> "get_user_memory", user_id |-> u,
                    instance |-> constructed[u] + g.constructed]
      /\ UNCHANGED <<now, st_log, ctx_log, next_oid>>

AddShortTermMemoryOf ==
  \E u \in DOMAIN user_memories, in \in ShortTermInputs :
    \E mem \in {add_short_term_memory(user_memories[u], in.message, in.importance, now,
                                      next_oid[u].short)} :
      /\ Call("add_short_term_memory", u)
      /\ user_memories' = write_store(user_memories, u, mem)
      /\ st_log' = [st_log EXCEPT ![u] =
            Append(@, MemoryItem(in.message.content, in.importance, "conversation",
                                 in.message.role, now, next_oid[u].short))]
      /\ next_oid' = [next_oid EXCEPT ![u].short = @ + 1]
      /\ result' = [op |-> "add_short_term_memory"]
      /\ UNCHANGED <<registry, now, ctx_log, constructed>>

AddLongTermMemoryOf ==
  \E u \in DOMAIN user_memories, in \in LongTermInputs :
    \E reading \in time_time(user_memories[u], now) :
    \E r \in {add_long_term_memory(user_memories[u], in.content, in.importance,
                                   in.memory_type, now, next_oid[u].long, reading)} :
      /\ Call("add_long_term_memory", u)
      /\ user_memories' = write_store(user_memories, u, r.mem)
      /\ next_oid' = [next_oid EXCEPT ![u].long = @ + 1]
      /\ result' = [op |-> "add_long_term_memory", ret |-> r.ret]
      /\ UNCHANGED <<registry, now, st_log, ctx_log, constructed>>

RetrieveRelevantMemoriesOf ==
  \E u \in DOMAIN user_memories, in \in RetrieveInputs :
    \E r \in {retrieve_relevant_memories(user_memories[u], in.context, in.limit,
                                         in.memory_types, now)} :
      /\ Call("retrieve_relevant_memories", u)
      /\ user_memories' = write_store(user_memories, u, r.mem)
      /\ result' = [op |-> "retrieve_relevant_memories", context |-> in.context,
                    limit |-> in.limit, memory_types |-> in.memory_types, ret |-> r.ret]
      /\ UNCHANGED <<registry, now, st_log, ctx_log, constructed, next_oid>>

UpdateConversationContext ==
  \E u \in DOMAIN user_memories, in \in ContextInputs :
    \E mem \in {update_conversation_context(user_memories[u], in.conversation_id,
                                            in.messages)} :
      /\ Call("update_conversation_context", u)
      /\ user_memories' = write_store(user_memories, u, mem)
      /\ result' = [op |-> "update_conversation_context",
                    conversation_id |-> in.conversation_id, messages |-> in.messages]
      /\ UNCHANGED <<registry, now, st_log, ctx_log, constructed, next_oid>>

GetConversationContext ==
  \E u \in DOMAIN user_memories, c \in ContextIds :
    \E r \in {read_conversation_context(user_memories[u], c)} :
      /\ Call("get_conversation_context", u)
      /\ user_memories' = write_store(user_memories, u, r.mem)
      /\ result' = [op |-> "get_conversation_context", conversation_id |-> c, ret |-> r.ret]
      /\ UNCHANGED <<registry, now, st_log, ctx_log, constructed, next_oid>>

AddUserPreference ==
  \E u \in DOMAIN user_memories, in \in PreferenceInputs :
    \E mem \in {add_user_preference(user_memories[u], in.key, in.value)} :
      /\ Call("add_user_preference", u)
      /\ user_memories' = write_store(user_memories, u, mem)
      /\ result' = [op |-> "add_user_preference", key |-> in.key, value |-> in.value]
      /\ UNCHANGED <<registry, now, st_log, ctx_log, constructed, next_oid>>

CleanupOldMemoriesOf ==
  \E u \in DOMAIN user_memories :
    \E mem \in {cleanup_old_memories(user_memories[u], now)} :
      /\ Call("cleanup_old_memories", u)
      /\ user_memories' = write_store(user_memories, u, mem)
      /\ result' = [op |-> "cleanup_old_memories",
                    removed |-> Len(user_memories[u].long_term_memory)
                                  - Len(mem.long_term_memory)]
      /\ UNCHANGED <<registry, now, st_log, ctx_log, constructed, next_oid>>

\* one pass; the cleanup of at most one user raises
CleanupAllMemories ==
  \E raising \in {{}} \cup {{u} : u \in DOMAIN user_memories} :
    \E r \in {cleanup_all_memories(user_memories, registry, raising, now)} :
      /\ Call("cleanup_all_memories", "all")
      /\ user_memories' = r.memories
      /\ result' = [op |-> "cleanup_all_memories", raising |-> raising, raised |-> r.raised]
      /\ UNCHANGED <<registry, now, st_log, ctx_log, constructed, next_oid>>

NextUsers ==
  \/ GetUserMemory
  \/ AddShortTermMemoryOf
  \/ AddLongTermMemoryOf
  \/ RetrieveRelevantMemoriesOf
  \/ UpdateConversationContext
  \/ GetConversationContext
  \/ AddUserPreference
  \/ CleanupOldMemoriesOf
  \/ CleanupAllMemories

SpecUsers == InitUsers /\ [][NextUsers]_vars

(***************************************************************************)
(* The save_memory endpoint, next to the chat turns.  A request whose      *)
(* importance is outside 1..10 fails the validation of MemoryRequest and   *)
(* never reaches the handler.                                              *)
(***************************************************************************)
\* Field(3, ge=1, le=10)
valid_importance(importance) == importance >= 1 /\ importance <= 10

\* a threshold that the importance has to exceed
importance_above_7(importance) == importance > 7

\* request.importance >= 7
importance_at_least_7(importance) == importance >= 7

\* the handler: the stores after the request, what was appended, the response
save_memory(memories, request, t, oid_short, oid_long, reading) ==
  LET g == get_user_memory(memories, request.userId)
      user_msg == Message("user", request.userMessage)
      assistant_msg == Message("assistant", request.assistantMessage)
      m1 == add_short_term_memory(g.memories[request.userId], user_msg, request.importance,
                                  t, oid_short)
      m2 == add_short_term_memory(m1, assistant_msg, request.importance, t, oid_short + 1)
      long == IF importance_at_least_7(request.importance)
                THEN LET added == add_long_term_memory(
                                    m2, combined_content(request.userMessage,
                                                         request.assistantMessage),
                                    request.importance, request.memoryType, t, oid_long, reading)
                     IN  [mem |-> added.mem, memory_id |-> Some(added.ret)]
                ELSE [mem |-> m2, memory_id |-> None]
      m3 == IF request.conversationId # None
              THEN update_conversation_context(long.mem, request.conversationId[1],
                                               <<user_msg, assistant_msg>>)
              ELSE long.mem
  IN  [memories |-> [g.memories EXCEPT ![request.userId] = m3],
       constructed |-> g.constructed,
       appended |-> <<MemoryItem(request.userMessage, request.importance, "conversation",
                                 "user", t, oid_short),
                      MemoryItem(request.assistantMessage, request.importance, "conversation",
                                 "assistant", t, oid_short + 1)>>,
       long_added |-> long.memory_id # None,
       response |-> [memoryId |-> IF long.memory_id # None THEN long.memory_id[1]
                                  ELSE <<"short_term">>,
                     stored |-> TRUE, memoryType |-> request.memoryType,
                     importance |-> request.importance]]

SaveInputs ==
  { [conversationId |-> Some("c1"), userMessage |-> s_a, assistantMessage |-> s_c,
     importance |-> 6, memoryType |-> "conversation"],
    [conversationId |-> None, userMessage |-> s_a, assistantMessage |-> s_c,
     importance |-> 7, memoryType |-> "important"],
    [conversationId |-> Some("c1"), userMessage |-> s_a, assistantMessage |-> s_c,
     importance |-> 10, memoryType |-> "conversation"],
    [conversationId |-> None, userMessage |-> s_a, assistantMessage |-> s_c,
     importance |-> 0, memoryType |-> "conversation"],
    [conversationId |-> None, userMessage |-> s_a, assistantMessage |-> s_c,
     importance |-> 11, memoryType |-> "conversation"] }

\* the entry of a save_memory request in requests
saved(u, in, created) ==
  [user_id |-> u, conversation_id |-> in.conversationId,
   messages |-> <<Message("user", in.userMessage), Message("assistant", in.assistantMessage)>>,
   aiSettings |-> FALSE, pc |-> "saved", instance |-> constructed[u] + created,
   created |-> created = 1, wrote |-> TRUE, in_flight |-> {}, first_oid |-> 0]

\* the requests to save come for one user
SaveMemory ==
  \E u \in {the_user}, in \in SaveInputs :
    LET request == [userId |-> u] @@ in
        mem == IF u \in DOMAIN user_memories THEN user_memories[u] ELSE ConversationMemory(u)
    IN  \E reading \in (IF importance_at_least_7(in.importance) THEN time_time(mem, now)
                        ELSE {<<now, 0>>}) :
        \E r \in {save_memory(user_memories, request, now, next_oid[u].short,
                              next_oid[u].long, reading)} :
          /\ Len(requests) < MaxRequests
          /\ valid_importance(in.importance)
          /\ user_memories' = r.memories
          /\ constructed' = [constructed EXCEPT ![u] = @ + r.constructed]
          /\ registry' = IF r.constructed = 1 THEN Append(registry, u) ELSE registry
          /\ st_log' = [st_log EXCEPT ![u] = @ \o r.appended]
          /\ ctx_log' = IF in.conversationId = None THEN ctx_log
                        ELSE [ctx_log EXCEPT ![u][in.conversationId[1]] =
                                @ \o <<Message("user", in.userMessage),
                                       Message("assistant", in.assistantMessage)>>]
          /\ next_oid' = [next_oid EXCEPT ![u] =
                [short |-> @.short + 2, long |-> @.long + (IF r.long_added THEN 1 ELSE 0)]]
          /\ requests' = Append(requests, saved(u, in, r.constructed))
          /\ result' = [op |-> "save_memory", request |-> request, outcome |-> "saved",
                        before |-> mem, response |-> r.response]
          /\ UNCHANGED now

\* the request is answered with a validation error
SaveMemoryRejected ==
  \E u \in {the_user}, in \in SaveInputs :
    /\ ~valid_importance(in.importance)
    /\ result' = [op |-> "save_memory", request |-> [userId |-> u] @@ in,
                  outcome |-> "rejected"]
    /\ UNCHANGED <<user_memories, registry, now, requests, st_log, ctx_log, constructed,
                   next_oid>>

\* update_conversation_context called on the store of the user, for a
\* conversation of the chat
UpdateContextCall ==
  \E u \in DOMAIN user_memories \cap {the_user},
     in \in {x \in ContextInputs : x.conversation_id \in ConvIds} :
    /\ Len(requests) < MaxRequests
    /\ user_memories' = [user_memories EXCEPT
                           ![u] = update_conversation_context(@, in.conversation_id,
                                                              in.messages)]
    /\ requests' = Append(requests,
          [user_id |-> u, conversation_id |-> Some(in.conversation_id),
           messages |-> in.messages, aiSettings |-> FALSE, pc |-> "updated",
           instance |-> constructed[u], created |-> FALSE, wrote |-> TRUE,
           in_flight |-> {}, first_oid |-> 0])
    /\ result' = [op |-> "update_conversation_context",
                  conversation_id |-> in.conversation_id, messages |-> in.messages]
    /\ UNCHANGED <<registry, now, st_log, ctx_log, constructed, next_oid>>

\* a chat turn whose model call raises leaves the stores as the turn that is
\* still waiting has them, so the turns here end by a reply or stay waiting
NextEndpoints ==
  \/ StartTurn
  \/ ModelCallReturns
  \/ SaveMemory
  \/ SaveMemoryRejected
  \/ UpdateContextCall

SpecEndpoints == InitChat /\ [][NextEndpoints]_vars

(***************************************************************************)
(* C1.  After N add_short_term_memory calls on a store with capacity C,    *)
(* the short-term queue holds exactly min(N, C) items and they are the     *)
(* last min(N, C) items added, in the order they were added, whatever      *)
(* their importance.                                                       *)
(***************************************************************************)
FifoBound ==
  \A u \in DOMAIN user_memories :
    LET q == user_memories[u].short_term_memory
        N == Len(st_log[u])
        k == IF N < short_term_memory_size THEN N ELSE short_term_memory_size
    IN  /\ Len(q) = k
        /\ \A i \in 1..k :
              /\ q[i].oid = st_log[u][N - k + i].oid
              /\ q[i].content = st_log[u][N - k + i].content
              /\ q[i].importance = st_log[u][N - k + i].importance

\* the queue has overflowed and an item given up was more important than
\* every item still held
FifoBoundWitness ==
  LET q == user_memories[the_user].short_term_memory
      N == Len(st_log[the_user])
  IN  /\ N > short_term_memory_size
      /\ Len(q) = short_term_memory_size
      /\ \E d \in 1..(N - Len(q)) :
            \A i \in 1..Len(q) : st_log[the_user][d].importance > q[i].importance

(***************************************************************************)
(* Retrieval, read from result after a call and from the step of the call. *)
(***************************************************************************)
store == user_memories[the_user]

item_at(mem, ref) ==
  IF ref.kind = "short" THEN mem.short_term_memory[ref.idx]
                        ELSE mem.long_term_memory[ref.idx].item

\* the place of an item in the scan: the queue, then the long-term map
scan_position(mem, ref) ==
  IF ref.kind = "short" THEN ref.idx ELSE Len(mem.short_term_memory) + ref.idx

requested_types(memory_types_opt) ==
  IF memory_types_opt = None THEN {"conversation", "user_info", "preference"}
                             ELSE memory_types_opt[1]

\* the item is of a requested type and scores above 3/10 against the context
matches(item, context, memory_types) ==
  /\ item.memory_type \in memory_types
  /\ LET s == relevance(context, item.content) IN 10 * s[1] > 3 * s[2]

returned_by_retrieve(ref) ==
  \E i \in 1..Len(result.ret) : result.ret[i] = ref

all_refs(mem) ==
  {[kind |-> "short", idx |-> i] : i \in 1..Len(mem.short_term_memory)}
    \cup {[kind |-> "long", idx |-> i] : i \in 1..Len(mem.long_term_memory)}

(***************************************************************************)
(* C5: retrieve_relevant_memories never returns an item whose relevance    *)
(* score to the given context is 0.3 or less, and never returns an item    *)
(* whose memory_type is outside the requested type set (by default         *)
(* conversation, user_info, preference).                                   *)
(***************************************************************************)
ThresholdAndTypeGating ==
  result.op = "retrieve_relevant_memories" =>
    \A i \in 1..Len(result.ret) :
      LET item == item_at(store, result.ret[i])
          s == relevance(result.context, item.content)
      IN  /\ ~(10 * s[1] <= 3 * s[2])
          /\ item.memory_type \in requested_types(result.memory_types)

\* a call that returned an item while the store held an item of a requested
\* type with a score in (0, 0.3] and an item above 0.3 of another type
ThresholdAndTypeGatingWitness ==
  /\ result.op = "retrieve_relevant_memories"
  /\ result.ret # <<>>
  /\ \E ref \in all_refs(store) :
        LET item == item_at(store, ref)
            s == relevance(result.context, item.content)
        IN  /\ item.memory_type \in requested_types(result.memory_types)
            /\ s[1] > 0 /\ 10 * s[1] <= 3 * s[2]
            /\ ~returned_by_retrieve(ref)
  /\ \E ref \in all_refs(store) :
        LET item == item_at(store, ref)
            s == relevance(result.context, item.content)
        IN  /\ item.memory_type \notin requested_types(result.memory_types)
            /\ 10 * s[1] > 3 * s[2]
            /\ ~returned_by_retrieve(ref)

(***************************************************************************)
(* C6: the result of retrieve_relevant_memories is ordered by descending   *)
(* relevance score and has at most limit items; items of equal score keep  *)
(* their scan order, short-term items (in queue order) before long-term    *)
(* items (in insertion order).                                             *)
(***************************************************************************)
OrderedAndCut ==
  result.op = "retrieve_relevant_memories" =>
    /\ Len(result.ret) <= result.limit
    /\ \A i, j \in 1..Len(result.ret) :
         i < j =>
           LET a == relevance(result.context, item_at(store, result.ret[i]).content)
               b == relevance(result.context, item_at(store, result.ret[j]).content)
           IN  \/ a[1] * b[2] > b[1] * a[2]
               \/ /\ a[1] * b[2] = b[1] * a[2]
                  /\ scan_position(store, result.ret[i]) < scan_position(store, result.ret[j])

\* a full result whose items tie, a short-term item before a long-term one,
\* while a further matching item was cut off
OrderedAndCutWitness ==
  /\ result.op = "retrieve_relevant_memories"
  /\ result.limit = 2
  /\ Len(result.ret) = 2
  /\ result.ret[1].kind = "short"
  /\ result.ret[2].kind = "long"
  /\ LET a == relevance(result.context, item_at(store, result.ret[1]).content)
         b == relevance(result.context, item_at(store, result.ret[2]).content)
     IN  a[1] * b[2] = b[1] * a[2]
  /\ \E ref \in all_refs(store) :
        /\ ~returned_by_retrieve(ref)
        /\ matches(item_at(store, ref), result.context, requested_types(result.memory_types))

(***************************************************************************)
(* C7: one call of retrieve_relevant_memories increments access_count by   *)
(* exactly 1 on every short-term and long-term item that passes the type   *)
(* filter and the 0.3 threshold, including the items later cut off by      *)
(* limit, and leaves access_count of every other item unchanged.           *)
(***************************************************************************)
AccessCountedOnEveryMatch ==
  [][result'.op = "retrieve_relevant_memories" =>
       LET old == user_memories[the_user]
           new == user_memories'[the_user]
           inc(item) == IF matches(item, result'.context, requested_types(result'.memory_types))
                          THEN 1 ELSE 0
       IN  /\ Len(new.short_term_memory) = Len(old.short_term_memory)
           /\ Len(new.long_term_memory) = Len(old.long_term_memory)
           /\ \A i \in 1..Len(old.short_term_memory) :
                /\ new.short_term_memory[i].oid = old.short_term_memory[i].oid
                /\ new.short_term_memory[i].access_count =
                     old.short_term_memory[i].access_count + inc(old.short_term_memory[i])
           /\ \A i \in 1..Len(old.long_term_memory) :
                /\ new.long_term_memory[i].item.oid = old.long_term_memory[i].item.oid
                /\ new.long_term_memory[i].item.access_count =
                     old.long_term_memory[i].item.access_count + inc(old.long_term_memory[i].item)
    ]_vars

\* after a call cut by its limit: a matching item that was not returned has
\* been counted, and an item that does not match has not
AccessCountedOnEveryMatchWitness ==
  /\ result.op = "retrieve_relevant_memories"
  /\ Len(result.ret) = result.limit
  /\ \E ref \in all_refs(store) :
        /\ ~returned_by_retrieve(ref)
        /\ matches(item_at(store, ref), result.context, requested_types(result.memory_types))
        /\ item_at(store, ref).access_count = 1
  /\ \E ref \in all_refs(store) :
        /\ ~matches(item_at(store, ref), result.context, requested_types(result.memory_types))
        /\ item_at(store, ref).access_count = 0

(***************************************************************************)
(* C8: across every sequence of operations the importance of a stored      *)
(* MemoryItem never changes after creation, and its access_count never     *)
(* decreases and changes only inside retrieve_relevant_memories when the   *)
(* item matches.                                                           *)
(***************************************************************************)
ImportanceFixedAccessMonotone ==
  [][\A old_ref \in all_refs(user_memories[the_user]) :
       \A new_ref \in all_refs(user_memories'[the_user]) :
         LET old == item_at(user_memories[the_user], old_ref)
             new == item_at(user_memories'[the_user], new_ref)
         IN  (old_ref.kind = new_ref.kind /\ old.oid = new.oid) =>
               /\ new.importance = old.importance
               /\ new.access_count >= old.access_count
               /\ new.access_count # old.access_count =>
                    /\ result'.op = "retrieve_relevant_memories"
                    /\ matches(old, result'.context, requested_types(result'.memory_types))
    ]_vars

\* items counted by a retrieval are still in the store, with their counts,
\* after the queue has overflowed and another item was appended
ImportanceFixedAccessMonotoneWitness ==
  /\ result.op = "add_short_term_memory"
  /\ Len(st_log[the_user]) > short_term_memory_size
  /\ \E i \in 1..Len(store.short_term_memory) :
        /\ store.short_term_memory[i].access_count >= 1
        /\ \E d \in 1..Len(st_log[the_user]) :
             /\ st_log[the_user][d].oid = store.short_term_memory[i].oid
             /\ st_log[the_user][d].importance = store.short_term_memory[i].importance
  /\ \E i \in 1..Len(store.long_term_memory) :
        store.long_term_memory[i].item.access_count >= 1

(***************************************************************************)
(* C9: get_relevant_memories, for any query and limit, leaves the whole    *)
(* store unchanged: no access_count or last_accessed changes and no item   *)
(* is added to or removed from short-term or long-term memory.             *)
(***************************************************************************)
LookupLeavesStoreUnchanged ==
  [][result'.op = "get_relevant_memories" => user_memories' = user_memories]_vars

\* a lookup that returned contents of a store holding short-term and
\* long-term items, none of which has been counted as accessed
LookupLeavesStoreUnchangedWitness ==
  /\ result.op = "get_relevant_memories"
  /\ result.query # <<>>
  /\ Len(result.ret) = 2
  /\ store.short_term_memory # <<>>
  /\ store.long_term_memory # <<>>
  /\ \A ref \in all_refs(store) :
        /\ item_at(store, ref).access_count = 0
        /\ item_at(store, ref).last_accessed = item_at(store, ref).created_at

(***************************************************************************)
(* C10: after cleanup_old_memories the long-term map is exactly the        *)
(* previous map minus every item that was both created before              *)
(* now - memory_retention_days and has importance below 7: an item of      *)
(* importance 7 or more is never removed whatever its age, and an item of  *)
(* importance below 7 older than the window is always removed.             *)
(***************************************************************************)
CleanupRemovesExactly ==
  [][result'.op = "cleanup_old_memories" =>
       LET old == user_memories[the_user].long_term_memory
           new == user_memories'[the_user].long_term_memory
           expired(e) == e.item.created_at < now - memory_retention_days
           stays(e) == ~(expired(e) /\ e.item.importance < 7)
       IN  /\ new = SelectSeq(old, stays)
           /\ \A i \in 1..Len(old) :
                /\ old[i].item.importance >= 7 => \E j \in 1..Len(new) : new[j] = old[i]
                /\ (old[i].item.importance < 7 /\ expired(old[i])) =>
                      ~\E j \in 1..Len(new) : new[j] = old[i]
    ]_vars

\* a cleanup that removed an item and kept an item of importance 7 that is
\* older than the retention window
CleanupRemovesExactlyWitness ==
  /\ result.op = "cleanup_old_memories"
  /\ result.removed >= 1
  /\ \E i \in 1..Len(store.long_term_memory) :
        /\ store.long_term_memory[i].item.created_at < now - memory_retention_days
        /\ store.long_term_memory[i].item.importance >= 7

(***************************************************************************)
(* C2: under any interleaving of concurrent first accesses to              *)
(* MemoryManager.get_user_memory with the same new user id, at most one    *)
(* ConversationMemory is ever constructed for that id and every caller     *)
(* receives that same instance.                                            *)
(***************************************************************************)
SingleCreation ==
  /\ \A u \in Users :
       /\ constructed[u] <= 1
       /\ constructed[u] = 1 <=> u \in DOMAIN user_memories
  /\ \A r \in 1..Len(requests) :
       /\ requests[r].instance = 1
       /\ requests[r].created =>
            \A q \in 1..(r - 1) : requests[q].user_id # requests[r].user_id

\* two turns of one new user in flight together: the first built the store,
\* the second received the same instance
SingleCreationWitness ==
  \E r1, r2 \in 1..Len(requests) :
    /\ r1 < r2
    /\ requests[r1].user_id = requests[r2].user_id
    /\ requests[r1].created
    /\ r1 \in requests[r2].in_flight
    /\ requests[r2].instance = requests[r1].instance
    /\ requests[r1].pc = "awaiting"
    /\ requests[r2].pc = "awaiting"

(***************************************************************************)
(* C3: when two chat turns for the same user and the same conversation id  *)
(* run concurrently no update is lost: the stored conversation context     *)
(* holds the messages contributed by both requests (the thread is the last *)
(* max_conversation_history messages handed to it, in order) and the       *)
(* short-term queue reflects every append of both requests, subject only   *)
(* to the FIFO capacity.                                                   *)
(***************************************************************************)
NoLostUpdate ==
  /\ \A u \in DOMAIN user_memories :
       /\ \A c \in ConvIds :
            LET thread == get_conversation_context(user_memories[u], c)
                handed == ctx_log[u][c]
                n == IF Len(handed) < max_conversation_history
                       THEN Len(handed) ELSE max_conversation_history
            IN  /\ Len(thread) = n
                /\ \A i \in 1..n : thread[i] = handed[Len(handed) - n + i]
       /\ LET q == user_memories[u].short_term_memory
              N == Len(st_log[u])
              k == IF N < short_term_memory_size THEN N ELSE short_term_memory_size
          IN  /\ Len(q) = k
              /\ \A i \in 1..k :
                   /\ q[i].oid = st_log[u][N - k + i].oid
                   /\ q[i].content = st_log[u][N - k + i].content
                   /\ q[i].role = st_log[u][N - k + i].role
  /\ \A r \in 1..Len(requests) :
       requests[r].pc = "done" =>
         LET u == requests[r].user_id
             user_messages == SelectSeq(requests[r].messages, LAMBDA m : m.role = "user")
             first == requests[r].first_oid
         IN  /\ first + Len(user_messages) <= Len(st_log[u])
             /\ \A i \in 1..Len(user_messages) :
                  /\ st_log[u][first + i - 1].oid = first + i - 1
                  /\ st_log[u][first + i - 1].content = user_messages[i].content
                  /\ st_log[u][first + i - 1].role = "user"
             /\ st_log[u][first + Len(user_messages)].content = response_content
             /\ st_log[u][first + Len(user_messages)].role = "assistant"
  /\ \A r1, r2 \in 1..Len(requests) :
       (/\ r1 # r2
        /\ requests[r1].pc = "done" /\ requests[r2].pc = "done"
        /\ requests[r1].user_id = requests[r2].user_id) =>
          requests[r1].first_oid # requests[r2].first_oid

\* two turns on conversation c1 of one user, the second started while the
\* first was awaiting the model and completed before it; both are done
NoLostUpdateWitness ==
  \E r1, r2 \in 1..Len(requests) :
    /\ r1 < r2
    /\ requests[r1].user_id = requests[r2].user_id
    /\ requests[r1].conversation_id = Some("c1")
    /\ requests[r2].conversation_id = Some("c1")
    /\ r1 \in requests[r2].in_flight
    /\ requests[r1].pc = "done"
    /\ requests[r2].pc = "done"
    /\ requests[r2].first_oid < requests[r1].first_oid
    /\ Len(get_conversation_context(user_memories[requests[r1].user_id], "c1"))
         = Len(requests[r1].messages) + Len(requests[r2].messages)

(***************************************************************************)
(* C4: if the model call fails during generate_response the exception is   *)
(* re-raised and the memory store of the user (short-term queue, long-term *)
(* map and conversation contexts) is as it was before the request: the     *)
(* turn wrote nothing to it.                                               *)
(***************************************************************************)
FailedTurnWroteNothing ==
  \A r \in 1..Len(requests) :
    requests[r].pc = "failed" => ~requests[r].wrote

(***************************************************************************)
(* C13: every add_long_term_memory call adds exactly one new entry to the  *)
(* long-term map and returns an id that no entry present before the call   *)
(* had, so that storing the same content and type twice gives two entries  *)
(* and never overwrites one.                                               *)
(***************************************************************************)
EveryInsertAddsAnEntry ==
  [][result'.op = "add_long_term_memory" =>
       LET old == user_memories[the_user].long_term_memory
           new == user_memories'[the_user].long_term_memory
       IN  /\ Len(new) = Len(old) + 1
           /\ \A i \in 1..Len(old) : old[i].id # result'.ret]_vars

(***************************************************************************)
(* C18: for an empty or blank query get_relevant_memories returns the      *)
(* contents of the long-term entries in descending order of importance,    *)
(* entries of equal importance in the order of their insertion, cut to     *)
(* limit; no entry is left out for its relevance and no short-term item    *)
(* is returned.                                                            *)
(***************************************************************************)
\* the number of entries of the map that come before the i-th one: the more
\* important ones, and the equally important ones inserted before it
importance_rank(ltm, i) ==
  Cardinality({j \in 1..Len(ltm) :
                 \/ ltm[j].item.importance > ltm[i].item.importance
                 \/ ltm[j].item.importance = ltm[i].item.importance /\ j < i})

query_relevance(query, item) == relevance(lower(query), lower(item.content))

\* 0.7 * (importance / 10) + 0.3 * (num / den), as a fraction
claimed_score(query, item) ==
  LET r == query_relevance(query, item)
  IN  <<7 * item.importance * r[2] + 30 * r[1], 100 * r[2]>>

min_of(a, b) == IF a < b THEN a ELSE b

NonBlankQueryRanked ==
  (result.op = "get_relevant_memories" /\ result.query \notin {s_empty, s_blank}) =>
    LET ltm == store.long_term_memory
        stm == store.short_term_memory
        R == {i \in 1..Len(ltm) : above_01(query_relevance(result.query, ltm[i].item))}
        M == {i \in 1..Len(stm) : contains(lower(stm[i].content), lower(result.query))}
        nl == min_of(result.limit, Cardinality(R))
        ns == IF nl < result.limit THEN min_of(result.limit - nl, Cardinality(M)) ELSE 0
        score(i) == claimed_score(result.query, ltm[i].item)
    IN  /\ Len(result.ret) = nl + ns
        /\ Len(result.ret) <= result.limit
        /\ \E p \in [1..nl -> R] :
             /\ \A k, l \in 1..nl : k # l => p[k] # p[l]
             /\ \A k \in 1..nl : result.ret[k] = ltm[p[k]].item.content
             /\ \A k, l \in 1..nl : k < l => ~score_gt(score(p[l]), score(p[k]))
             /\ \A i \in R : (\A k \in 1..nl : p[k] # i) =>
                   \A k \in 1..nl : ~score_gt(score(i), score(p[k]))
        /\ \A k \in 1..ns :
             \E i \in M :
               /\ Cardinality({j \in M : j < i}) = k - 1
               /\ result.ret[nl + k] = stm[i].content

\* the query "A b" with limit 2: of two long-term entries one has no word
\* of the query and is left out, the other is returned first; of the two
\* queued items, which both contain "a b", the first fills the result
NonBlankQueryRankedWitness ==
  /\ result.op = "get_relevant_memories"
  /\ result.query = s_Ab
  /\ result.limit = 2
  /\ Len(store.long_term_memory) = 2
  /\ \E i \in 1..2 : ~above_01(query_relevance(result.query, store.long_term_memory[i].item))
  /\ Len(store.short_term_memory) = 2
  /\ \A i \in 1..2 : contains(lower(store.short_term_memory[i].content), lower(result.query))
  /\ store.short_term_memory[1].content # store.short_term_memory[2].content
  /\ result.ret = <<s_Ab, store.short_term_memory[1].content>>

(***************************************************************************)
(* C20: _calculate_relevance is symmetric in its two arguments, its value  *)
(* lies between 0 and 1, and it is 0 whenever one of the two strings has   *)
(* no token (is empty or all whitespace).                                  *)
(***************************************************************************)
RelevanceSymmetricBounded ==
  result.op = "calculate_relevance" =>
    /\ score_eq(result.ret, calculate_relevance(result.memory_content, result.context))
    /\ result.ret[2] > 0
    /\ 0 <= result.ret[1]
    /\ result.ret[1] <= result.ret[2]
    /\ ((\A i \in 1..Len(result.context) : result.context[i] = Space)
          \/ (\A i \in 1..Len(result.memory_content) : result.memory_content[i] = Space))
         => result.ret[1] = 0

\* two strings of one and two words that share a word, written in different
\* case: the score is strictly between 0 and 1
RelevanceSymmetricBoundedWitness ==
  /\ result.op = "calculate_relevance"
  /\ result.context = <<"A">>
  /\ result.memory_content = <<"a", " ", "b">>
  /\ result.ret = <<1, 2>>

(***************************************************************************)
(* Claims on the stores of several users.                                  *)
(***************************************************************************)
\* the call a step of SpecUsers has just made
last_call == requests[Len(requests)]

(***************************************************************************)
(* C11: cleanup_old_memories leaves the short-term queue, the conversation *)
(* contexts and the user preferences of the store as they were, whatever   *)
(* the age and importance of the items in the queue.                       *)
(***************************************************************************)
CleanupLeavesOtherContainers ==
  [][result'.op = "cleanup_old_memories" =>
       LET u == requests'[Len(requests')].user_id
       IN  /\ user_memories'[u].short_term_memory = user_memories[u].short_term_memory
           /\ user_memories'[u].conversation_contexts = user_memories[u].conversation_contexts
           /\ user_memories'[u].user_preferences = user_memories[u].user_preferences]_vars

\* a cleanup that removed a long-term entry from a store whose queue holds
\* an item as old and as unimportant, and that has threads and preferences
CleanupLeavesOtherContainersWitness ==
  /\ result.op = "cleanup_old_memories"
  /\ result.removed >= 1
  /\ LET mem == user_memories[last_call.user_id]
     IN  /\ \E i \in 1..Len(mem.short_term_memory) :
               /\ mem.short_term_memory[i].created_at < now - memory_retention_days
               /\ mem.short_term_memory[i].importance < 7
         /\ mem.conversation_contexts # <<>>
         /\ mem.user_preferences # <<>>

(***************************************************************************)
(* C12: one pass of cleanup_all_memories runs cleanup_old_memories on the  *)
(* store of every registered user; when the cleanup of one user raises,    *)
(* the store of every other user has still been cleaned.                   *)
(***************************************************************************)
CleanupAllReachesEveryUser ==
  [][result'.op = "cleanup_all_memories" =>
       \A u \in DOMAIN user_memories :
         u \notin result'.raising =>
           user_memories'[u] = cleanup_old_memories(user_memories[u], now)]_vars

(***************************************************************************)
(* C14: update_conversation_context(id, turns) makes the thread of id the  *)
(* given turns, or the last max_conversation_history of them in their      *)
(* order when more are given; nothing of the thread stored before          *)
(* remains, and the threads of the other ids are as they were.             *)
(***************************************************************************)
ContextReplaced ==
  [][result'.op = "update_conversation_context" =>
       LET u == requests'[Len(requests')].user_id
           id == result'.conversation_id
           turns == result'.messages
           n == Len(turns)
           m == max_conversation_history
           kept == IF n > m THEN AsSeq([i \in 1..m |-> turns[n - m + i]]) ELSE turns
           old == user_memories[u].conversation_contexts
           new == user_memories'[u].conversation_contexts
       IN  /\ \E j \in 1..Len(new) : new[j].id = id /\ new[j].item = kept
           /\ \A j, k \in 1..Len(new) : new[j].id = new[k].id => j = k
           /\ \A i \in 1..Len(old) : old[i].id # id => \E j \in 1..Len(new) : new[j] = old[i]
           /\ \A j \in 1..Len(new) : new[j].id # id => \E i \in 1..Len(old) : old[i] = new[j]]_vars

\* the first call made: the thread c1, which held one turn, is given one
\* turn more than a thread keeps; it now holds all but the first of them,
\* the old turn is gone, and the thread c2 is the one stored before
ContextReplacedWitness ==
  /\ result.op = "update_conversation_context"
  /\ Len(requests) = 1
  /\ result.conversation_id = "c1"
  /\ Len(result.messages) = max_conversation_history + 1
  /\ LET mem == user_memories[last_call.user_id]
         thread == get_conversation_context(mem, "c1")
     IN  /\ thread = SubSeq(result.messages, 2, Len(result.messages))
         /\ \A i \in 1..Len(thread) : thread[i] # Message("user", s_ac)
         /\ get_conversation_context(used_store(last_call.user_id), "c1")
              = <<Message("user", s_ac)>>
         /\ get_conversation_context(mem, "c2") = <<Message("user", s_a)>>

(***************************************************************************)
(* C15: get_conversation_context for a conversation id that has no thread  *)
(* in the store returns the empty sequence and changes nothing: no thread, *)
(* empty or not, is registered for that id.                                *)
(***************************************************************************)
UnknownContextIsEmpty ==
  [][result'.op = "get_conversation_context" =>
       LET u == requests'[Len(requests')].user_id
           old == user_memories[u].conversation_contexts
       IN  /\ user_memories' = user_memories
           /\ (\A i \in 1..Len(old) : old[i].id # result'.conversation_id)
                => result'.ret = <<>>]_vars

\* the thread of c3, which no call has stored, asked of a store with threads
UnknownContextIsEmptyWitness ==
  /\ result.op = "get_conversation_context"
  /\ result.conversation_id = "c3"
  /\ result.ret = <<>>
  /\ LET d == user_memories[last_call.user_id].conversation_contexts
     IN  /\ Len(d) = 2
         /\ \A i \in 1..Len(d) : d[i].id # "c3"

(***************************************************************************)
(* C16: get_user_memory of a user id the registry does not have registers  *)
(* and returns a new store whose queue, map, preferences and contexts are  *)
(* empty; a call for a registered id returns the instance registered,      *)
(* leaving every store as it is; and no step of any operation takes an     *)
(* entry out of the registry or puts another instance in its place.        *)
(***************************************************************************)
RegistryOnlyGrows ==
  [][/\ DOMAIN user_memories \subseteq DOMAIN user_memories'
     /\ \A u \in DOMAIN user_memories : constructed'[u] = constructed[u]
     /\ result'.op = "get_user_memory" =>
          LET u == result'.user_id
          IN  /\ u \in DOMAIN user_memories'
              /\ result'.instance = constructed'[u]
              /\ \A v \in DOMAIN user_memories : user_memories'[v] = user_memories[v]
              /\ u \notin DOMAIN user_memories =>
                   user_memories'[u] = [user_id |-> u, short_term_memory |-> <<>>,
                                        long_term_memory |-> <<>>, user_preferences |-> <<>>,
                                        conversation_contexts |-> <<>>]]_vars

\* two calls for a user the manager did not know: the second returns the
\* one instance the first has built and registered last
RegistryOnlyGrowsWitness ==
  /\ Len(requests) = 2
  /\ requests[1] = [op |-> "get_user_memory", user_id |-> new_user]
  /\ requests[2] = [op |-> "get_user_memory", user_id |-> new_user]
  /\ result.instance = 1
  /\ constructed[new_user] = 1
  /\ registry = <<"u1", "u2", new_user>>
  /\ user_memories[new_user].short_term_memory = <<>>

(***************************************************************************)
(* C17: an operation on the store of one user (an append to the queue, an  *)
(* insert into the map, a retrieval, a read or an update of a thread, a    *)
(* preference, cleanup_old_memories) leaves the store of every other user  *)
(* as it was.                                                              *)
(***************************************************************************)
StoreOperations ==
  {"add_short_term_memory", "add_long_term_memory", "retrieve_relevant_memories",
   "get_conversation_context", "update_conversation_context", "add_user_preference",
   "cleanup_old_memories"}

OtherStoresUntouched ==
  [][requests' # requests /\ requests'[Len(requests')].op \in StoreOperations =>
       \A v \in DOMAIN user_memories :
         v # requests'[Len(requests')].user_id => user_memories'[v] = user_memories[v]]_vars

\* cleanup_old_memories of u1 has removed the expired entry of u1, and the
\* store of u2 still holds its own expired entry
OtherStoresUntouchedWitness ==
  /\ result.op = "cleanup_old_memories"
  /\ result.removed = 1
  /\ last_call.user_id = "u1"
  /\ user_memories["u1"].long_term_memory = <<>>
  /\ user_memories["u2"] = used_store("u2")
  /\ Len(user_memories["u2"].long_term_memory) = 1

(***************************************************************************)
(* C21: the relevance of two strings is the size of the intersection over  *)
(* the size of the union of their sets of lower-cased words, so the order, *)
(* the repetition and the case of the words play no part, and it is        *)
(* exactly 1 for two strings with the same non-empty set of words.         *)
(***************************************************************************)
\* the letter without its case
folded(c) == IF c = "A" THEN "a" ELSE IF c = "B" THEN "b" ELSE c

\* the set of the words of a string, case folded: a word runs from a
\* character that follows a space or starts the string to one that
\* precedes a space or ends it, with no space inside
words_of(s) ==
  {AsSeq([k \in 1..(j - i + 1) |-> folded(s[i + k - 1])]) :
     <<i, j>> \in {p \in (1..Len(s)) \X (1..Len(s)) :
                    /\ p[1] <= p[2]
                    /\ \A k \in p[1]..p[2] : s[k] # " "
                    /\ (p[1] = 1 \/ s[p[1] - 1] = " ")
                    /\ (p[2] = Len(s) \/ s[p[2] + 1] = " ")}}

RelevanceIsJaccard ==
  result.op = "calculate_relevance" =>
    LET A == words_of(result.context)
        B == words_of(result.memory_content)
    IN  /\ (A = {} \/ B = {}) => result.ret[1] = 0
        /\ (A # {} /\ B # {}) =>
             result.ret[1] * Cardinality(A \cup B) = Cardinality(A \cap B) * result.ret[2]
        /\ (A = B /\ A # {}) => result.ret[1] = result.ret[2]

\* "b A" against "a b": the same two words in another order and another
\* case, and the score is 1
RelevanceIsJaccardWitness ==
  /\ result.op = "calculate_relevance"
  /\ result.context = <<"b", " ", "A">>
  /\ result.memory_content = <<"a", " ", "b">>
  /\ result.ret[1] = result.ret[2]
  /\ result.ret[2] = 2

(***************************************************************************)
(* C22: to_dict of the store that from_dict rebuilds from the to_dict of a *)
(* store equals that first to_dict (long-term ids and items, preferences,  *)
(* threads, the timestamps and access counts of the items), but for the    *)
(* queue, which holds the last short_term_memory_size of the exported      *)
(* items.                                                                  *)
(***************************************************************************)
RoundTripKeepsExport ==
  result.op = "round_trip" =>
    LET q == result.exported.short_term_memory
        n == Len(q)
        c == short_term_memory_size
    IN  result.again =
          [result.exported EXCEPT
             !.short_term_memory = IF n > c THEN SubSeq(q, n - c + 1, n) ELSE q]

\* an export with one queue item too many, a long-term entry that was read
\* after it was made, a preference and two threads; the rebuilt store has
\* lost the oldest queue item and nothing else
RoundTripKeepsExportWitness ==
  /\ result.op = "round_trip"
  /\ Len(result.exported.short_term_memory) = short_term_memory_size + 1
  /\ result.again.short_term_memory = Tail(result.exported.short_term_memory)
  /\ \E i \in 1..Len(result.again.long_term_memory) :
        /\ result.again.long_term_memory[i].item.access_count = 1
        /\ result.again.long_term_memory[i].item.created_at = <<"0">>
        /\ result.again.long_term_memory[i].item.last_accessed = <<"1">>
  /\ result.again.user_preferences # <<>>
  /\ Len(result.again.conversation_contexts) = 2
  /\ now > 1

(***************************************************************************)
(* C23: the message list of generate_prompt.                               *)
(***************************************************************************)
role_not_system(msg) == msg.role # "system"

\* the thread the request names, as it was stored before the request
stored_context ==
  IF result.request.conversationId = None THEN <<>>
  ELSE get_conversation_context(result.before, result.request.conversationId[1])

last_turns(turns, n) ==
  SubSeq(turns, Len(turns) - (IF n < Len(turns) THEN n ELSE Len(turns)) + 1, Len(turns))

framed(included) ==
  /\ result.response.messages =
       <<[role |-> "system", content |-> result.response.systemPrompt]>> \o included
       \o <<[role |-> "user", content |-> result.request.message]>>
  /\ result.response.contextLength = Len(included)

\* C23 as stated: the system prompt, then the min(maxContextMessages, number
\* of non-system turns) most recent non-system turns of the stored thread in
\* their order, then the current user message; contextLength is the number
\* of turns included.
PromptHoldsRecentNonSystemTurns ==
  result.op = "generate_prompt" =>
    framed(last_turns(SelectSeq(stored_context, role_not_system),
                      result.request.maxContextMessages))

\* C23, amended: the turns between the system prompt and the current user
\* message are the non-system turns among the last maxContextMessages turns
\* of the stored thread, in their order; contextLength is their number.
PromptHoldsNonSystemOfRecentTurns ==
  result.op = "generate_prompt" =>
    framed(SelectSeq(last_turns(stored_context, result.request.maxContextMessages),
                     role_not_system))

\* a thread with two non-system turns around a system turn and a window of
\* two: one context turn is included, the older user turn is not
PromptHoldsNonSystemOfRecentTurnsWitness ==
  /\ result.op = "generate_prompt"
  /\ result.request.maxContextMessages = 2
  /\ stored_context = <<Message("user", s_a), Message("system", s_c), Message("user", s_ab)>>
  /\ Len(result.response.messages) = 3
  /\ result.response.messages[2] = Message("user", s_ab)
  /\ result.response.contextLength = 1

(***************************************************************************)
(* C24: the prompt of create_personalized_system_prompt is the base        *)
(* persona block, then the user-info block if one of interests,            *)
(* current_goals, preferred_topics is set and non-empty, then the memory   *)
(* block if the context is non-empty and the retrieval finds a memory,     *)
(* then the recent-context block if the context is non-empty; each block   *)
(* that is present comes behind one separator and a block that is omitted  *)
(* adds nothing.                                                           *)
(***************************************************************************)
behind_separator(present, block) == IF present THEN <<Separator>> \o block ELSE <<>>

PromptBlocksInOrder ==
  result.op = "create_personalized_system_prompt" =>
    LET with_store == result.user_memory # None
        with_context == result.conversation_context # None
                        /\ result.conversation_context[1] # <<>>
        preferences == result.before.user_preferences
        has_info == with_store
                    /\ \E key \in {"interests", "current_goals", "preferred_topics"} :
                          has_key(preferences, key) /\ value_of(preferences, key) # <<>>
        memory_block == create_memory_prompt(result.before, result.conversation_context[1],
                                             now).prompt
        has_memory == with_store /\ with_context /\ memory_block # <<>>
    IN  result.prompt =
          create_base_personality_prompt(result.ai_settings)
          \o behind_separator(has_info, create_user_info_prompt(result.before))
          \o behind_separator(has_memory, memory_block)
          \o behind_separator(with_context,
                              create_context_prompt(result.conversation_context[1]))

(***************************************************************************)
(* C29: what create_personalized_system_prompt does to the store.          *)
(***************************************************************************)
\* the store is given and the context has a turn
rendered_with_context ==
  /\ result.op = "create_personalized_system_prompt"
  /\ result.user_memory # None
  /\ result.conversation_context # None
  /\ result.conversation_context[1] # <<>>

\* the item is of a default type and scores above 0.3 against the last turn
matches_last_turn(memory) ==
  LET turns == result.conversation_context[1]
  IN  /\ memory.memory_type \in DefaultTypes
      /\ above_03(relevance(turns[Len(turns)].content, memory.content))

counted(memory) ==
  IF matches_last_turn(memory) THEN [memory EXCEPT !.access_count = @ + 1] ELSE memory

counted_and_stamped(memory) ==
  IF matches_last_turn(memory)
    THEN [memory EXCEPT !.access_count = @ + 1, !.last_accessed = now]
    ELSE memory

store_with(change(_)) ==
  LET before == result.before
  IN  [before EXCEPT
         !.short_term_memory =
            AsSeq([i \in 1..Len(before.short_term_memory) |->
                     change(before.short_term_memory[i])]),
         !.long_term_memory =
            AsSeq([i \in 1..Len(before.long_term_memory) |->
                     [before.long_term_memory[i] EXCEPT !.item = change(@)]])]

\* C29 as stated: with a store and a non-empty context the call adds 1 to
\* access_count of every item that matches the last context turn and changes
\* nothing else in the store; with an empty or missing context the store is
\* as before.
PromptRenderingOnlyCounts ==
  result.op = "create_personalized_system_prompt" =>
    user_memories[the_user] = IF rendered_with_context THEN store_with(counted)
                                                       ELSE result.before

\* C29, amended: with a store and a non-empty context the call adds 1 to
\* access_count and sets last_accessed to the time of the call on every item
\* that matches the last context turn, and changes nothing else in the
\* store; with an empty or missing context, or without a store, the store
\* is as before.
PromptRenderingTouchesMatches ==
  result.op = "create_personalized_system_prompt" =>
    user_memories[the_user] = IF rendered_with_context THEN store_with(counted_and_stamped)
                                                       ELSE result.before

\* a rendering that touched a matching long-term item made earlier and left
\* an item of another type alone
PromptRenderingTouchesMatchesWitness ==
  /\ rendered_with_context
  /\ \E i, j \in 1..Len(user_memories[the_user].long_term_memory) :
        LET touched == user_memories[the_user].long_term_memory[i].item
            other == user_memories[the_user].long_term_memory[j].item
        IN  /\ matches_last_turn(touched)
            /\ touched.access_count = 1
            /\ touched.created_at < now
            /\ touched.last_accessed = now
            /\ ~matches_last_turn(other)
            /\ other.access_count = 0
            /\ other.last_accessed < now
  /\ user_memories[the_user] # result.before

(***************************************************************************)
(* C25: a save_memory request appends two items to the short-term queue of *)
(* the user, the user message and then the assistant message, both with    *)
(* the importance of the request; it stores one long-term item (the        *)
(* combined text, the importance and the type of the request) under the id *)
(* it returns if and only if the importance is 7 or more, and returns the  *)
(* literal short_term when it stores none.                                 *)
(***************************************************************************)
saved_request == result.op = "save_memory" /\ result.outcome = "saved"

\* the queue after two appends of x and y
two_more(q, x, y) ==
  LET all == q \o <<x, y>>
  IN  IF Len(all) > short_term_memory_size
        THEN SubSeq(all, Len(all) - short_term_memory_size + 1, Len(all))
        ELSE all

same_but_identity(x, y) == [x EXCEPT !.oid = 0] = [y EXCEPT !.oid = 0]

ThreadsWithinHistory ==
  \A u \in DOMAIN user_memories :
    \A i \in 1..Len(user_memories[u].conversation_contexts) :
      Len(user_memories[u].conversation_contexts[i].item) <= max_conversation_history

\* a thread that is full after a chat turn whose messages, put behind the
\* stored turns, were more than the history holds
ThreadsWithinHistoryWitness ==
  /\ result.op = "generate_response"
  /\ \E r \in 1..Len(requests) :
        /\ r > 1
        /\ requests[r].pc \in {"awaiting", "done"}
        /\ requests[r].conversation_id # None
        /\ Len(ctx_log[requests[r].user_id][requests[r].conversation_id[1]])
             > max_conversation_history
        /\ Len(get_conversation_context(user_memories[requests[r].user_id],
                                        requests[r].conversation_id[1]))
             = max_conversation_history

(***************************************************************************)
(* C27: after a save_memory request that names a conversation, the thread  *)
(* of that conversation is the turns stored before the request followed by *)
(* the user turn and the assistant turn of the request (the most recent    *)
(* max_conversation_history of them).                                      *)
(***************************************************************************)
SaveMemoryExtendsThread ==
  (saved_request /\ result.request.conversationId # None) =>
    LET conversation_id == result.request.conversationId[1]
        all == get_conversation_context(result.before, conversation_id)
               \o <<Message("user", result.request.userMessage),
                    Message("assistant", result.request.assistantMessage)>>
    IN  get_conversation_context(user_memories[result.request.userId], conversation_id)
          = suffix(all, max_conversation_history)

(***************************************************************************)
(* C28: a chat turn with a conversation id stores, as the thread of that   *)
(* conversation, the last max_conversation_history turns of the stored     *)
(* thread followed by the messages of the request; the reply is appended   *)
(* to the short-term queue and the threads stay as they are.               *)
(***************************************************************************)
\* the store of a user before the first request is an empty one
store_of(memories, u) == IF u \in DOMAIN memories THEN memories[u] ELSE ConversationMemory(u)

turn_started ==
  /\ Len(requests') = Len(requests) + 1
  /\ requests'[Len(requests')].pc = "awaiting"
  /\ requests'[Len(requests')].conversation_id # None

reply_stored(r) ==
  /\ Len(requests') = Len(requests)
  /\ requests[r].pc = "awaiting"
  /\ requests'[r].pc = "done"

ChatTurnStoresThread ==
  [][ /\ turn_started =>
           LET turn == requests'[Len(requests')]
               all == get_conversation_context(store_of(user_memories, turn.user_id),
                                               turn.conversation_id[1])
                      \o turn.messages
               n == IF Len(all) > max_conversation_history
                      THEN max_conversation_history ELSE Len(all)
           IN  get_conversation_context(user_memories'[turn.user_id], turn.conversation_id[1])
                 = SubSeq(all, Len(all) - n + 1, Len(all))
      /\ \A r \in 1..Len(requests) :
           reply_stored(r) =>
             LET u == requests[r].user_id
                 q == user_memories'[u].short_term_memory
             IN  /\ user_memories'[u].conversation_contexts
                      = user_memories[u].conversation_contexts
                 /\ q # <<>>
                 /\ q[Len(q)].content = response_content
                 /\ q[Len(q)].role = "assistant"
    ]_vars

\* a finished turn of a conversation that had been sent more turns than the
\* history holds: the thread is the last of what was sent, and the reply is
\* in the queue and not in the thread
ChatTurnStoresThreadWitness ==
  /\ result.op = "generate_response"
  /\ result.outcome = "response"
  /\ LET turn == requests[result.request]
         u == turn.user_id
     IN  /\ turn.conversation_id # None
         /\ Len(ctx_log[u][turn.conversation_id[1]]) > max_conversation_history
         /\ get_conversation_context(user_memories[u], turn.conversation_id[1])
              = suffix(ctx_log[u][turn.conversation_id[1]], max_conversation_history)
         /\ \A i \in 1..max_conversation_history :
               get_conversation_context(user_memories[u], turn.conversation_id[1])[i].role
                 # "assistant"
         /\ LET q == user_memories[u].short_term_memory
            IN  q[Len(q)].content = response_content /\ q[Len(q)].role = "assistant"

(***************************************************************************)
(* C30: in every state reached through chat turns and save_memory          *)
(* requests, every item of the short-term queue and of the long-term map   *)
(* of every user has an importance from 1 to 10.                           *)
(***************************************************************************)
ImportanceWithinScale ==
  \A u \in DOMAIN user_memories :
    /\ \A i \in 1..Len(user_memories[u].short_term_memory) :
          user_memories[u].short_term_memory[i].importance \in 1..10
    /\ \A i \in 1..Len(user_memories[u].long_term_memory) :
          user_memories[u].long_term_memory[i].item.importance \in 1..10

\* a request to save with importance 11 has just been turned down, after a
\* chat turn whose message holds five keywords was stored with importance
\* 10 and its reply with importance 2
ImportanceWithinScaleWitness ==
  /\ result.op = "save_memory"
  /\ result.outcome = "rejected"
  /\ result.request.importance = 11
  /\ the_user \in DOMAIN user_memories
  /\ \E i, j \in 1..Len(user_memories[the_user].short_term_memory) :
        /\ user_memories[the_user].short_term_memory[i].content = s_cdefg
        /\ user_memories[the_user].short_term_memory[i].importance = 10
        /\ user_memories[the_user].short_term_memory[j].role = "assistant"
        /\ user_memories[the_user].short_term_memory[j].importance = 2

====
